---- MODULE Spec2Model ----
(***************************************************************************)
(* Credential / session core of the Canvas MCP bridge server:              *)
(*   - the credential store (users, sessions, auth_codes, oauth_tokens),   *)
(*   - the in-process cache of verified API keys,                          *)
(*   - the authentication gate in front of /mcp,                           *)
(*   - the OAuth authorization-code + PKCE flow,                           *)
(*   - linking of provider credentials (token-login).                      *)
(*                                                                         *)
(* The server is a single-threaded event loop: a handler runs without      *)
(* interruption up to its next await on real asynchronous work (argon2     *)
(* hashing / verification, the provider HTTP call).  Every such await is a *)
(* point where other handlers run, so a handler is one action per segment  *)
(* between awaits; handlers without such an await are one action.          *)
(*                                                                         *)
(* Random 256-bit values (API keys, OAuth tokens, authorization codes,     *)
(* session ids) are drawn from one counter, nextSecret: every generated    *)
(* value is fresh.  Times are milliseconds, as Date.now().                 *)
(***************************************************************************)
EXTENDS Integers, Sequences, FiniteSets, TLC

\* ------------------------------------------------------------------ bounds
NumProcs == 2        \* request handlers that may be suspended at an await
MaxSecrets == 5      \* random values generated in one behaviour
MaxAdvances == 1     \* times the clock moves in one behaviour

Procs == 1..NumProcs

\* ------------------------------------------------------- program constants
CACHE_TTL == 900000
AUTH_CODE_TTL == 10 * 60 * 1000
OAUTH_TOKEN_TTL == 86400000
SESSION_MAX_AGE == 2592000
CANVAS_CACHE_TTL == 5 * 60 * 1000
MAGIC_COOLDOWN == 60 * 1000
MAGIC_LINK_TTL == 15 * 60 * 1000

NULL == "NULL"       \* SQL NULL in a TEXT column

\* ---------------------------------------------------------------- time
\* A millisecond timestamp or duration, kept as seconds and milliseconds:
\* 30 days of milliseconds exceed the 32-bit integers of the model checker.
Ms(n) == [s |-> n \div 1000, ms |-> n % 1000]

Secs(n) == [s |-> n, ms |-> 0]

\* a + b
TPlus(a, b) == [s |-> a.s + b.s + ((a.ms + b.ms) \div 1000),
                ms |-> (a.ms + b.ms) % 1000]

\* a - b, for a >= b
TMinus(a, b) == [s |-> a.s - b.s - (IF a.ms < b.ms THEN 1 ELSE 0),
                 ms |-> (a.ms - b.ms) % 1000]

\* a < b
TLess(a, b) == a.s < b.s \/ (a.s = b.s /\ a.ms < b.ms)

NoHash == [alg |-> "NULL", key |-> 0]
NoToken == [alg |-> "NULL", text |-> NULL]   \* NULL in canvas_access_token

VARIABLES
  now,          \* Date.now(), as seconds and milliseconds
  advances,     \* how often the clock has moved
  nextSecret,   \* next value of the random generator
  users,        \* table users: sequence indexed by id (AUTOINCREMENT)
  apiKeyCache,  \* Map<string, ApiKeyCacheEntry>
  sessions,     \* table sessions: id -> row
  auth_codes,   \* table auth_codes: code -> row
  oauth_tokens, \* table oauth_tokens: token -> row
  procs,        \* suspended handlers: what each awaits and its locals
  last,         \* the latest response of /mcp or /api/user/regenerate-key
  issued,       \* history: bearer credentials handed out, and to whom
  retired,      \* history: keys replaced by a completed regenerateApiKey
  minted,       \* history: authorization codes, as the consent approved them
  magic_links,  \* table magic_links: sequence indexed by id (AUTOINCREMENT)
  globalCache,  \* SimpleCache shared by all CanvasClient instances
  revealed,     \* history: how often /api/user/me has returned each key
  ENCRYPTION_KEY,  \* the key Buffer decoded at module load: its length in bytes
  pendingRequests, \* SimpleCache.pendingRequests: cache key -> promise
  upstream         \* the fetches to the provider that have not answered yet

vars == <<now, advances, nextSecret, users, apiKeyCache, sessions, auth_codes,
          oauth_tokens, procs, last, issued, retired, minted, magic_links,
          globalCache, revealed, ENCRYPTION_KEY,
                 pendingRequests, upstream>>

\* ------------------------------------------------------------- primitives
\* Bun.password.hash(argon2id): one-way, the stored value is not the key.
hashApiKey(apiKey) == [alg |-> "argon2id", key |-> apiKey]

\* A verification that accepts every key.
verifyApiKeyAny(apiKey, hash) == TRUE

\* Bun.password.verify
verifyApiKey(apiKey, hash) == hash.alg = "argon2id" /\ hash.key = apiKey

\* createCipheriv("aes-256-gcm", key, iv) throws unless the key has 32 bytes.
CipherUsable == ENCRYPTION_KEY = 32

\* AES-256-GCM: the stored blob is not the plaintext.
encrypt(text) == [alg |-> "aes-256-gcm", text |-> text]

decrypt(blob) == blob.text

\* f without the key k
Drop(f, k) == [x \in DOMAIN f \ {k} |-> f[x]]

UserExists(id) == id \in 1..Len(users)

\* ---------------------------------------------------------------- handlers
\* What a suspended token-login remembers: its cookie, its body, and the
\* provider's profile once it has answered.
NoLink == [cookie |-> 0, canvas_domain |-> NULL, access_token |-> NULL,
           canvas_user_id |-> NULL, email |-> NULL,
           fetchToken |-> NULL,   \* the token the awaited fetch carries
           validated |-> FALSE]   \* history: the provider answered this
                                  \* request's own fetch with a profile

\* What a suspended tool call remembers: the tool and its arguments, the
\* promises it awaits, the course list once it has it, and the per-course
\* results that have settled.
NoCall == [tool |-> NULL, userId |-> 0, limit |-> 0, courses |-> << >>,
           awaits |-> {}, parts |-> << >>]

Idle == [pc |-> "idle", apiToken |-> 0, scan |-> <<>>,
         userId |-> 0, newApiKey |-> 0, overlapped |-> FALSE, cached |-> FALSE,
         link |-> NoLink, call |-> NoCall]

NoResponse == [route |-> "none"]

\* History records of the credentials handed out.
IssuedKey(userId) == [kind |-> "key", userId |-> userId, scope |-> NULL, code |-> 0]

\* A session cookie set by /auth/verify for the magic-link token.
IssuedSession(userId, token) ==
  [kind |-> "session", userId |-> userId, scope |-> NULL, code |-> token]

IssuedToken(userId, scope, code) ==
  [kind |-> "oauth", userId |-> userId, scope |-> scope, code |-> code]

\* A value the random generator never returns.
Forged == MaxSecrets + 1

\* Bearer credentials a client can present: none (0), a credential that was
\* handed out, or a forged one.  (Any other value behaves as the forged one.)
Presentable == {0, Forged} \cup DOMAIN issued

\* Cookies a browser can send: none (0) or the id of a session row.
Cookies == {0} \cup DOMAIN sessions

\* DB.getSession: the row, if it exists and has not expired; 0 otherwise.
getSession(sessionId) ==
  IF sessionId \in DOMAIN sessions /\ TLess(now, sessions[sessionId].expires_at)
  THEN sessionId
  ELSE 0

SessionUser(cookie) ==
  IF getSession(cookie) = 0 THEN 0 ELSE sessions[cookie].user_id

\* Handlers are interchangeable: a new request takes the first free slot.
Free(p) ==
  /\ procs[p].pc = "idle"
  /\ \A q \in Procs : q < p => procs[q].pc # "idle"

\* History bookkeeping: a request by p runs while these regenerations are
\* suspended, so they are overlapped by it.
MarkOverlap(pr, p) ==
  [q \in Procs |->
     IF q # p /\ pr[q].pc = "hash"
     THEN [pr[q] EXCEPT !.overlapped = TRUE]
     ELSE pr[q]]

\* A hit test that never looks at the entry's age.
CacheFreshForever(apiKey) == apiKey \in DOMAIN apiKeyCache

\* ----------------------------------------------------------- the gate, /mcp
\* getUserByApiKey: the cache hit test
CacheFresh(apiKey) ==
  /\ apiKey \in DOMAIN apiKeyCache
  /\ TLess(TMinus(now, apiKeyCache[apiKey].verifiedAt), Ms(CACHE_TTL))

\* SELECT * FROM users WHERE mcp_api_key IS NOT NULL
UsersWithApiKey == SelectSeq(users, LAMBDA u : u.mcp_api_key # NoHash)

\* A lookup that forgets "AND expires_at > ?".
getUserByOAuthTokenAnyAge(token) ==
  IF token \in DOMAIN oauth_tokens /\ UserExists(oauth_tokens[token].user_id)
  THEN oauth_tokens[token].user_id
  ELSE 0

\* DB.getUserByOAuthToken: the user id, 0 for null
getUserByOAuthToken(token) ==
  IF token \in DOMAIN oauth_tokens /\ TLess(now, oauth_tokens[token].expires_at)
  THEN IF UserExists(oauth_tokens[token].user_id)
       THEN oauth_tokens[token].user_id
       ELSE 0
  ELSE 0

\* handleMcpRequest: 401 without a token
MissingTokenResponse ==
  [route |-> "/mcp", token |-> 0, status |-> 401,
   message |-> "Missing API token. Please authenticate first.",
   hint |-> "/.well-known/oauth-protected-resource",
   userId |-> 0, via |-> "none", at |-> now]

\* handleMcpRequest once getUserByApiKey has answered user (0 for null):
\* the OAuth fallback, then 401 or the dispatch as the user found.
McpResponse(apiToken, user, cacheHit) ==
  LET oauthUser == IF user = 0 THEN getUserByOAuthToken(apiToken) ELSE 0
      found == IF user # 0 THEN user ELSE oauthUser
  IN IF found = 0
     THEN [route |-> "/mcp", token |-> apiToken, status |-> 401,
           message |-> "Invalid or expired token", hint |-> NULL,
           userId |-> 0, via |-> "none", at |-> now]
     ELSE [route |-> "/mcp", token |-> apiToken, status |-> 200,
           message |-> "dispatched", hint |-> NULL, userId |-> found,
           via |-> IF user = 0 THEN "oauth"
                   ELSE IF cacheHit THEN "cache" ELSE "scan",
           at |-> now]

\* POST /mcp up to the first await: no token; cache hit; or the start of the scan.
GateStart(p, apiToken) ==
  /\ UNCHANGED <<magic_links, globalCache, revealed, ENCRYPTION_KEY,
                 pendingRequests, upstream>>
  /\ Free(p)
  /\ UNCHANGED <<now, advances, nextSecret, users, sessions, auth_codes,
                 oauth_tokens, issued, retired, minted>>
  /\ IF apiToken = 0
     THEN /\ last' = MissingTokenResponse
          /\ apiKeyCache' = apiKeyCache
          /\ procs' = MarkOverlap(procs, p)
     ELSE IF CacheFresh(apiToken) /\ UserExists(apiKeyCache[apiToken].userId)
     THEN /\ last' = McpResponse(apiToken, apiKeyCache[apiToken].userId, TRUE)
          /\ apiKeyCache' = apiKeyCache
          /\ procs' = MarkOverlap(procs, p)
     ELSE LET rows == UsersWithApiKey IN
          /\ apiKeyCache' = IF CacheFresh(apiToken)
                            THEN Drop(apiKeyCache, apiToken)
                            ELSE apiKeyCache
          /\ IF rows = <<>>
             THEN /\ last' = McpResponse(apiToken, 0, FALSE)
                  /\ procs' = MarkOverlap(procs, p)
             ELSE /\ last' = last
                  /\ procs' = [MarkOverlap(procs, p) EXCEPT ![p] =
                       [Idle EXCEPT !.pc = "verify", !.apiToken = apiToken,
                                    !.scan = rows]]

\* One verifyApiKey of the scan has answered.
GateVerify(p) ==
  /\ UNCHANGED <<magic_links, globalCache, revealed, ENCRYPTION_KEY,
                 pendingRequests, upstream>>
  /\ procs[p].pc = "verify"
  /\ UNCHANGED <<now, advances, nextSecret, users, sessions, auth_codes,
                 oauth_tokens, issued, retired, minted>>
  /\ LET me == procs[p]
         user == Head(me.scan)
     IN IF verifyApiKey(me.apiToken, user.mcp_api_key)
        THEN /\ apiKeyCache' = [k \in DOMAIN apiKeyCache \cup {me.apiToken} |->
                                  IF k = me.apiToken
                                  THEN [userId |-> user.id, verifiedAt |-> now]
                                  ELSE apiKeyCache[k]]
             /\ last' = McpResponse(me.apiToken, user.id, FALSE)
             /\ procs' = [procs EXCEPT ![p] = Idle]
        ELSE /\ apiKeyCache' = apiKeyCache
             /\ IF Tail(me.scan) = <<>>
                THEN /\ last' = McpResponse(me.apiToken, 0, FALSE)
                     /\ procs' = [procs EXCEPT ![p] = Idle]
                ELSE /\ last' = last
                     /\ procs' = [procs EXCEPT ![p].scan = Tail(me.scan)]

\* ------------------------------------------------ /api/user/regenerate-key
\* A regenerateApiKey that forgets the invalidation.
InvalidateUserCacheForgotten(cache, userId) == cache

\* An invalidation that clears the whole cache.
InvalidateWholeCache(cache, userId) == << >>

\* DB.invalidateUserCache / the loop at the head of regenerateApiKey
InvalidateUserCache(cache, userId) ==
  [k \in {x \in DOMAIN cache : cache[x].userId # userId} |-> cache[k]]

\* POST /api/user/regenerate-key up to the await of hashApiKey.
RegenStart(p, cookie) ==
  /\ UNCHANGED <<magic_links, globalCache, revealed, ENCRYPTION_KEY,
                 pendingRequests, upstream>>
  /\ Free(p)
  /\ UNCHANGED <<now, advances, users, sessions, auth_codes, oauth_tokens,
                 issued, retired, minted>>
  /\ IF SessionUser(cookie) = 0
     THEN /\ last' = [route |-> "/api/user/regenerate-key", status |-> 401,
                      error |-> "Not authenticated", userId |-> 0, api_key |-> 0]
          /\ UNCHANGED <<nextSecret, apiKeyCache>>
          /\ procs' = MarkOverlap(procs, p)
     ELSE /\ nextSecret <= MaxSecrets
          /\ apiKeyCache' = InvalidateUserCache(apiKeyCache, SessionUser(cookie))
          /\ nextSecret' = nextSecret + 1
          /\ last' = last
          /\ procs' = [MarkOverlap(procs, p) EXCEPT ![p] =
               [Idle EXCEPT !.pc = "hash", !.userId = SessionUser(cookie),
                            !.newApiKey = nextSecret,
                            !.overlapped = \E q \in Procs \ {p} : procs[q].pc # "idle",
                            !.cached = \E k \in DOMAIN apiKeyCache :
                                          apiKeyCache[k].userId = SessionUser(cookie)]]

\* hashApiKey has answered: UPDATE users SET mcp_api_key, and the response.
RegenFinish(p) ==
  /\ UNCHANGED <<magic_links, globalCache, revealed, ENCRYPTION_KEY,
                 pendingRequests, upstream>>
  /\ procs[p].pc = "hash"
  /\ UNCHANGED <<now, advances, nextSecret, apiKeyCache, sessions, auth_codes,
                 oauth_tokens, minted>>
  /\ LET me == procs[p]
         old == IF UserExists(me.userId) THEN users[me.userId].mcp_api_key ELSE NoHash
     IN /\ users' = IF UserExists(me.userId)
                    THEN [users EXCEPT ![me.userId].mcp_api_key = hashApiKey(me.newApiKey)]
                    ELSE users
        /\ retired' = IF old = NoHash THEN retired
                      ELSE retired \cup {[key |-> old.key, userId |-> me.userId,
                                          clean |-> ~me.overlapped,
                                          cached |-> me.cached]}
        /\ issued' = issued @@ (me.newApiKey :> IssuedKey(me.userId))
        /\ last' = [route |-> "/api/user/regenerate-key", status |-> 200,
                    error |-> NULL, userId |-> me.userId, api_key |-> me.newApiKey]
        /\ procs' = [procs EXCEPT ![p] = Idle]

\* ------------------------------------------------------------ OAuth + PKCE
\* createHash("sha256").update(code_verifier).digest("base64url")
S256(code_verifier) == "sha256-" \o code_verifier

Verifiers == {"v1", "v2"}
Scopes == {"canvas:read", "canvas:grades:read"}
ClientIds == {"cli", "evil"}
RedirectUris == {"https://cli/cb", "https://evil/cb"}

\* Query strings of GET /auth/authorize; NULL is an absent parameter.
AuthorizeQueries ==
  [client_id : {NULL, "cli"}, redirect_uri : {NULL, "https://cli/cb"},
   code_challenge : {NULL, S256("v1")}, response_type : {NULL, "code", "token"},
   code_challenge_method : {NULL, "S256", "plain"}]

\* Forms posted to /auth/consent; NULL is an absent field.
ConsentForms ==
  [action : {"approve", "deny"}, client_id : {"cli"},
   redirect_uri : {"https://cli/cb"}, code_challenge : {S256("v1")},
   code_challenge_method : {"S256"}, scope : Scopes \cup {NULL}]

\* Bodies posted to /auth/token; NULL or 0 is an absent field.  A body with
\* another grant type is answered before its other fields are read.
TokenBodies ==
  [grant_type : {"authorization_code"},
   code : {0, Forged} \cup DOMAIN minted,
   code_verifier : {NULL} \cup Verifiers,
   client_id : {NULL} \cup ClientIds,
   redirect_uri : RedirectUris]
  \cup
  [grant_type : {"refresh_token"},
   code : DOMAIN minted,
   code_verifier : {"v1"}, client_id : {"cli"}, redirect_uri : {"https://cli/cb"}]

\* users.canvas_domain of the session's user is set
HasCanvas(userId) == UserExists(userId) /\ users[userId].canvas_domain # NULL

\* A handler that looks at the session before it validates the parameters.
AuthorizeResponseSessionFirst(cookie, q) ==
  IF SessionUser(cookie) = 0
  THEN [status |-> 302, body |-> "/?oauth_redirect="]
  ELSE IF q.client_id = NULL \/ q.redirect_uri = NULL \/ q.code_challenge = NULL
          \/ q.response_type = NULL
  THEN [status |-> 400, body |-> "Missing required OAuth parameters"]
  ELSE IF q.response_type # "code"
  THEN [status |-> 400, body |-> "Only authorization_code flow is supported"]
  ELSE IF q.code_challenge_method # "S256"
  THEN [status |-> 400, body |-> "Only S256 PKCE method is supported"]
  ELSE IF ~HasCanvas(SessionUser(cookie))
  THEN [status |-> 200, body |-> "Connect Canvas First"]
  ELSE [status |-> 200, body |-> "Authorize Access"]

\* GET /auth/authorize: the checks in the order of the handler.
AuthorizeResponse(cookie, q) ==
  IF q.client_id = NULL \/ q.redirect_uri = NULL \/ q.code_challenge = NULL
     \/ q.response_type = NULL
  THEN [status |-> 400, body |-> "Missing required OAuth parameters"]
  ELSE IF q.response_type # "code"
  THEN [status |-> 400, body |-> "Only authorization_code flow is supported"]
  ELSE IF q.code_challenge_method # "S256"
  THEN [status |-> 400, body |-> "Only S256 PKCE method is supported"]
  ELSE IF SessionUser(cookie) = 0
  THEN [status |-> 302, body |-> "/?oauth_redirect="]
  ELSE IF ~HasCanvas(SessionUser(cookie))
  THEN [status |-> 200, body |-> "Connect Canvas First"]
  ELSE [status |-> 200, body |-> "Authorize Access"]

\* GET /auth/authorize: what the handler writes to auth_codes (nothing).
AuthorizeStores(cookie, q) == auth_codes

\* GET /auth/authorize
Authorize(cookie, q) ==
  /\ UNCHANGED <<magic_links, globalCache, revealed, ENCRYPTION_KEY,
                 pendingRequests, upstream>>
  /\ auth_codes' = AuthorizeStores(cookie, q)
  /\ procs' = MarkOverlap(procs, 0)
  /\ UNCHANGED <<now, advances, nextSecret, users, apiKeyCache, sessions,
                 oauth_tokens, last, issued, retired, minted>>

\* POST /auth/consent: which return of the handler is taken.
ConsentOutcome(cookie, f) ==
  IF SessionUser(cookie) = 0 THEN "unauthenticated"
  ELSE IF f.action = "deny" THEN "denied"
  ELSE IF f.scope = NULL THEN "insert_failed"  \* NOT NULL constraint: INSERT throws
  ELSE "approved"

\* POST /auth/consent: the response
ConsentResponse(cookie, f) ==
  CASE ConsentOutcome(cookie, f) = "unauthenticated" ->
         [status |-> 401, location |-> NULL, code |-> 0]
    [] ConsentOutcome(cookie, f) = "denied" ->
         [status |-> 302, location |-> "error=access_denied", code |-> 0]
    [] ConsentOutcome(cookie, f) = "insert_failed" ->
         [status |-> 500, location |-> NULL, code |-> 0]
    [] OTHER ->
         [status |-> 302, location |-> "code=", code |-> nextSecret]

\* A row that stores the default scope instead of the submitted one.
AuthCodeRowDefaultScope(userId, f) ==
  [user_id |-> userId, client_id |-> f.client_id, redirect_uri |-> f.redirect_uri,
   code_challenge |-> f.code_challenge,
   code_challenge_method |-> f.code_challenge_method, scope |-> "canvas:read",
   expires_at |-> TPlus(now, Ms(AUTH_CODE_TTL))]

\* The row POST /auth/consent inserts into auth_codes.
AuthCodeRow(userId, f) ==
  [user_id |-> userId, client_id |-> f.client_id, redirect_uri |-> f.redirect_uri,
   code_challenge |-> f.code_challenge,
   code_challenge_method |-> f.code_challenge_method, scope |-> f.scope,
   expires_at |-> TPlus(now, Ms(AUTH_CODE_TTL))]

\* POST /auth/consent
Consent(cookie, f) ==
  /\ UNCHANGED <<magic_links, globalCache, revealed, ENCRYPTION_KEY,
                 pendingRequests, upstream>>
  /\ procs' = MarkOverlap(procs, 0)
  /\ UNCHANGED <<now, advances, users, apiKeyCache, sessions, oauth_tokens,
                 last, issued, retired>>
  /\ IF ConsentOutcome(cookie, f) = "approved"
     THEN /\ nextSecret <= MaxSecrets
          /\ nextSecret' = nextSecret + 1
          /\ auth_codes' = auth_codes @@
               (nextSecret :> AuthCodeRow(SessionUser(cookie), f))
          /\ minted' = minted @@
               (nextSecret :> [userId |-> sessions[cookie].user_id, scope |-> f.scope,
                               client_id |-> f.client_id,
                               redirect_uri |-> f.redirect_uri,
                               code_challenge |-> f.code_challenge,
                               expires_at |-> TPlus(now, Ms(AUTH_CODE_TTL)),
                               burned |-> FALSE])
     ELSE UNCHANGED <<nextSecret, auth_codes, minted>>

\* SELECT * FROM auth_codes WHERE code = ? AND expires_at > ?
AuthCodeFound(code) ==
  code \in DOMAIN auth_codes /\ TLess(now, auth_codes[code].expires_at)

\* A token endpoint that accepts any verifier.
PkceSkipped(code_verifier, authData) == TRUE

\* The PKCE check of POST /auth/token
PkceOk(code_verifier, authData) == S256(code_verifier) = authData.code_challenge

\* The binding check of POST /auth/token
BindingOk(b, authData) ==
  b.client_id = authData.client_id /\ b.redirect_uri = authData.redirect_uri

\* A token endpoint that treats a binding mismatch like a failed PKCE check.
TokenOutcomeMismatchBurns(b) ==
  IF b.grant_type # "authorization_code" THEN "unsupported_grant_type"
  ELSE IF b.code = 0 \/ b.code_verifier = NULL \/ b.client_id = NULL
  THEN "invalid_request"
  ELSE IF ~AuthCodeFound(b.code) THEN "not_found"
  ELSE IF ~PkceOk(b.code_verifier, auth_codes[b.code]) THEN "pkce_failed"
  ELSE IF ~BindingOk(b, auth_codes[b.code]) THEN "pkce_failed"
  ELSE "issued"

\* POST /auth/token: which return of the handler is taken.
TokenOutcome(b) ==
  IF b.grant_type # "authorization_code" THEN "unsupported_grant_type"
  ELSE IF b.code = 0 \/ b.code_verifier = NULL \/ b.client_id = NULL
  THEN "invalid_request"
  ELSE IF ~AuthCodeFound(b.code) THEN "not_found"
  ELSE IF ~PkceOk(b.code_verifier, auth_codes[b.code]) THEN "pkce_failed"
  ELSE IF ~BindingOk(b, auth_codes[b.code]) THEN "mismatch"
  ELSE "issued"

\* POST /auth/token: the response
TokenResponse(b) ==
  CASE TokenOutcome(b) = "unsupported_grant_type" ->
         [status |-> 400, error |-> "unsupported_grant_type", access_token |-> 0,
          scope |-> NULL]
    [] TokenOutcome(b) = "invalid_request" ->
         [status |-> 400, error |-> "invalid_request", access_token |-> 0,
          scope |-> NULL]
    [] TokenOutcome(b) \in {"not_found", "pkce_failed", "mismatch"} ->
         [status |-> 400, error |-> "invalid_grant", access_token |-> 0,
          scope |-> NULL]
    [] OTHER ->
         [status |-> 200, error |-> NULL, access_token |-> nextSecret,
          scope |-> auth_codes[b.code].scope]

\* DB.createOAuthToken: the row inserted
OAuthTokenRow(userId, scope, expiresIn) ==
  [user_id |-> userId, scope |-> scope, expires_at |-> TPlus(now, Ms(expiresIn))]

\* A failed PKCE check that leaves the code in place.
BurnCodeForgotten(codes, code) == codes

\* A successful exchange that leaves the code in place.
ConsumeCodeForgotten(codes, code) == codes

\* DELETE FROM auth_codes after a failed PKCE check
BurnCode(codes, code) == Drop(codes, code)

\* DELETE FROM auth_codes after the token was created
ConsumeCode(codes, code) == Drop(codes, code)

\* POST /auth/token
Token(b) ==
  /\ UNCHANGED <<magic_links, globalCache, revealed, ENCRYPTION_KEY,
                 pendingRequests, upstream>>
  /\ procs' = MarkOverlap(procs, 0)
  /\ UNCHANGED <<now, advances, users, apiKeyCache, sessions, last, retired>>
  /\ CASE TokenOutcome(b) = "pkce_failed" ->
            /\ auth_codes' = BurnCode(auth_codes, b.code)
            /\ minted' = [minted EXCEPT ![b.code].burned = TRUE]
            /\ UNCHANGED <<nextSecret, oauth_tokens, issued>>
       [] TokenOutcome(b) = "issued" ->
            /\ nextSecret <= MaxSecrets
            /\ nextSecret' = nextSecret + 1
            /\ oauth_tokens' = oauth_tokens @@
                 (nextSecret :> OAuthTokenRow(auth_codes[b.code].user_id,
                                              auth_codes[b.code].scope,
                                              OAUTH_TOKEN_TTL))
            /\ auth_codes' = ConsumeCode(auth_codes, b.code)
            /\ issued' = issued @@
                 (nextSecret :> IssuedToken(minted[b.code].userId,
                                            minted[b.code].scope, b.code))
            /\ minted' = minted
       [] OTHER ->
            UNCHANGED <<nextSecret, auth_codes, oauth_tokens, issued, minted>>

\* The body of a POST /auth/token as it arrives: its Content-Type header,
\* what its text is (a url-encoded form, a JSON object, the JSON text null,
\* text that is neither, or nothing), and the fields a form or object holds.
TokenWire ==
  [contentType : {"application/x-www-form-urlencoded", "application/json", NULL},
   syntax : {"form", "json", "json-null", "garbage", "empty"},
   fields : {b \in TokenBodies : b.redirect_uri = "https://cli/cb"}]

\* formData.get of a form that has none of the fields; an absent JSON member
NoTokenBody ==
  [grant_type |-> NULL, code |-> 0, code_verifier |-> NULL, client_id |-> NULL,
   redirect_uri |-> NULL]

\* POST /auth/token, the decoding of the body: req.formData() takes any text
\* and yields the fields it can find; req.json() throws on text that is not
\* JSON, and destructuring the value null throws.
DecodeTokenRequest(req) ==
  IF req.contentType = "application/x-www-form-urlencoded"
  THEN [thrown |-> FALSE,
        body |-> IF req.syntax = "form" THEN req.fields ELSE NoTokenBody]
  ELSE IF req.syntax = "json"
  THEN [thrown |-> FALSE, body |-> req.fields]
  ELSE [thrown |-> TRUE, body |-> NoTokenBody]

\* What Bun.serve answers when the handler throws.
UncaughtResponse ==
  [status |-> 500, error |-> "Internal Server Error", access_token |-> 0,
   scope |-> NULL]

\* POST /auth/token: the response to the request as it arrives
TokenPostResponse(req) ==
  IF DecodeTokenRequest(req).thrown THEN UncaughtResponse
  ELSE TokenResponse(DecodeTokenRequest(req).body)

\* POST /auth/token from the arrival of the request
TokenPost(req) ==
  IF DecodeTokenRequest(req).thrown
  THEN /\ last' = [route |-> "/auth/token", status |-> UncaughtResponse.status]
       /\ procs' = MarkOverlap(procs, 0)
       /\ UNCHANGED <<now, advances, nextSecret, users, apiKeyCache, sessions,
                      auth_codes, oauth_tokens, issued, retired, minted,
                      magic_links, globalCache, revealed, ENCRYPTION_KEY,
                 pendingRequests, upstream>>
  ELSE Token(DecodeTokenRequest(req).body)

\* ------------------------------------------------- /api/auth/token-login
\* The accounts the Canvas instances know: domain and token, id and e-mail.
ProviderAccounts ==
  { [canvas_domain |-> "a.edu", access_token |-> "tokA", id |-> "101",
     email |-> "ann@a.edu"],
    [canvas_domain |-> "b.edu", access_token |-> "tokB", id |-> "202",
     email |-> "bob@b.edu"],
    \* Canvas numbers its users per instance: b.edu has its own user 101.
    [canvas_domain |-> "b.edu", access_token |-> "9~carl-token-b", id |-> "101",
     email |-> "carl@b.edu"] }

\* Bodies posted to /api/auth/token-login; NULL is an absent field.
LoginBodies ==
  { [canvas_domain |-> NULL, access_token |-> "tokB"],
    [canvas_domain |-> "b.edu", access_token |-> NULL],
    [canvas_domain |-> "b.edu", access_token |-> "tokB"],
    [canvas_domain |-> "a.edu", access_token |-> "tokA"],
    [canvas_domain |-> "a.edu", access_token |-> "tokB"] }

\* Bodies of logins at two institutions, and one with a token the provider
\* does not know that ends in the 8 characters of one it knows.
LoginBodiesAcross ==
  { [canvas_domain |-> "a.edu", access_token |-> "tokA"],
    [canvas_domain |-> "b.edu", access_token |-> "tokB"],
    [canvas_domain |-> "b.edu", access_token |-> "9~carl-token-b"],
    [canvas_domain |-> "b.edu", access_token |-> "forged-token-b"] }

\* CanvasClient.getCurrentUser answers with a profile
ProviderKnows(canvas_domain, access_token) ==
  \E a \in ProviderAccounts :
    a.canvas_domain = canvas_domain /\ a.access_token = access_token

\* CanvasClient.getCurrentUser: the profile
getCurrentUser(canvas_domain, access_token) ==
  LET a == CHOOSE a \in ProviderAccounts :
             a.canvas_domain = canvas_domain /\ a.access_token = access_token
  IN [id |-> a.id, email |-> a.email]

\* A lookup by canvas_user_id alone.
FindExistingByIdOnly(canvas_user_id, email) ==
  LET byId == {u \in 1..Len(users) : users[u].canvas_user_id = canvas_user_id}
  IN IF byId # {} THEN CHOOSE u \in byId : \A v \in byId : u <= v ELSE 0

\* DB.createOrUpdateUser: the row found by canvas_user_id, else by e-mail
\* among the rows without canvas_user_id; 0 for none.
FindExisting(canvas_user_id, email) ==
  LET byId == {u \in 1..Len(users) : users[u].canvas_user_id = canvas_user_id}
      byEmail == {u \in 1..Len(users) :
                    users[u].email = email /\ users[u].canvas_user_id = NULL}
      first(S) == CHOOSE u \in S : \A v \in S : u <= v
  IN IF byId # {} THEN first(byId)
     ELSE IF byEmail # {} THEN first(byEmail)
     ELSE 0

\* An UPDATE that clears the key hash of the row it links.
UpdateUserRowRekeyed(userId, link, hashedApiKey) ==
  [users EXCEPT ![userId] =
     [@ EXCEPT !.canvas_user_id = link.canvas_user_id,
               !.canvas_domain = link.canvas_domain,
               !.canvas_access_token = encrypt(link.access_token),
               !.mcp_api_key = NoHash]]

\* UPDATE users SET canvas_user_id, canvas_domain, canvas_access_token,
\* mcp_api_key WHERE id = ?  (no condition on the row's present hash)
UpdateUserRow(userId, link, hashedApiKey) ==
  [users EXCEPT ![userId] =
     [@ EXCEPT !.canvas_user_id = link.canvas_user_id,
               !.canvas_domain = link.canvas_domain,
               !.canvas_access_token = encrypt(link.access_token),
               !.mcp_api_key = hashedApiKey]]

\* INSERT INTO users
InsertUserRow(link, hashedApiKey) ==
  Append(users,
         [id |-> Len(users) + 1, canvas_user_id |-> link.canvas_user_id,
          canvas_domain |-> link.canvas_domain, email |-> link.email,
          canvas_access_token |-> encrypt(link.access_token),
          mcp_api_key |-> hashedApiKey])

\* DB.createSession at the present time
NewSessionRow(userId, apiKey) ==
  [user_id |-> userId, api_key |-> apiKey,
   expires_at |-> TPlus(now, Secs(SESSION_MAX_AGE))]

TokenLoginResponse(status, userId, apiKey, cookie, validated) ==
  [route |-> "/api/auth/token-login", status |-> status, userId |-> userId,
   apiKey |-> apiKey, cookie |-> cookie, validated |-> validated]

\* accessToken.slice(-8)
Last8(accessToken) ==
  IF Len(accessToken) <= 8 THEN accessToken
  ELSE SubSeq(accessToken, Len(accessToken) - 7, Len(accessToken))

\* CanvasClient.getCacheKey for the path /users/self
getCacheKey(canvas_domain, access_token) ==
  [domain |-> canvas_domain, tokenHash |-> Last8(access_token)]

\* SimpleCache.get returns the entry's data
CanvasCacheHit(key) ==
  key \in DOMAIN globalCache /\ ~TLess(globalCache[key].expiresAt, now)

\* SimpleCache.get: an expired entry is deleted by the lookup
CanvasCacheAfterGet(key) ==
  IF key \in DOMAIN globalCache /\ ~CanvasCacheHit(key)
  THEN Drop(globalCache, key)
  ELSE globalCache

\* SimpleCache.set(cacheKey, data, cacheTTL)
CanvasCacheSet(key, data) ==
  [k \in DOMAIN globalCache \cup {key} |->
     IF k = key THEN [data |-> data, expiresAt |-> TPlus(now, Ms(CANVAS_CACHE_TTL))]
     ELSE globalCache[k]]

\* The token-login handler from the provider's profile on: the session is
\* read and DB.updateUserCanvas or DB.createOrUpdateUser runs up to its
\* hashApiKey, or to its end when the row already has a hash.  pr is procs
\* without this handler's slot, me the handler's locals.
LinkUser(p, pr, me, canvasUser) ==
  LET link == [me.link EXCEPT !.canvas_user_id = canvasUser.id,
                              !.email = canvasUser.email]
      sessionUser == SessionUser(me.link.cookie)
      existing == IF sessionUser # 0 THEN sessionUser
                  ELSE FindExisting(link.canvas_user_id, link.email)
  IN IF ~CipherUsable
     THEN \* encrypt throws before anything is written: the handler's catch
          /\ procs' = [pr EXCEPT ![p] = Idle]
          /\ last' = TokenLoginResponse(500, 0, 0, 0, me.link.validated)
          /\ UNCHANGED <<nextSecret, users, sessions>>
     ELSE IF existing = 0 \/ users[existing].mcp_api_key = NoHash
     THEN \* generateApiKey, then await hashApiKey
          /\ nextSecret <= MaxSecrets
          /\ nextSecret' = nextSecret + 1
          /\ procs' = [pr EXCEPT ![p] =
               [me EXCEPT !.pc = IF sessionUser # 0 THEN "hashUpdate"
                                 ELSE IF existing # 0 THEN "hashExisting"
                                 ELSE "hashNew",
                          !.userId = existing, !.newApiKey = nextSecret,
                          !.link = link]]
          /\ UNCHANGED <<users, sessions, last>>
     ELSE \* the row has a hash: it is kept, and no key is returned
          /\ users' = UpdateUserRow(existing, link, users[existing].mcp_api_key)
          /\ procs' = [pr EXCEPT ![p] = Idle]
          /\ IF sessionUser # 0
             THEN /\ last' = TokenLoginResponse(200, existing, 0, 0,
                                                me.link.validated)
                  /\ UNCHANGED <<nextSecret, sessions>>
             ELSE /\ nextSecret <= MaxSecrets
                  /\ nextSecret' = nextSecret + 1
                  /\ sessions' = sessions @@
                       (nextSecret :> NewSessionRow(existing, 0))
                  /\ last' = TokenLoginResponse(200, existing, 0, nextSecret,
                                                me.link.validated)

\* POST /api/auth/token-login up to the fetch of the provider's /users/self.
\* CanvasClient.request answers from the shared cache when it holds an entry
\* for the domain and the last 8 characters of the token; it joins a fetch
\* in flight for the same cache key; otherwise it starts its own fetch.
TokenLoginStart(p, cookie, body) ==
  /\ Free(p)
  /\ UNCHANGED <<now, advances, apiKeyCache, auth_codes, oauth_tokens, issued,
                 retired, minted, magic_links, revealed, ENCRYPTION_KEY,
                 pendingRequests, upstream>>
  /\ IF body.canvas_domain = NULL \/ body.access_token = NULL
     THEN /\ last' = TokenLoginResponse(400, 0, 0, 0, FALSE)
          /\ procs' = MarkOverlap(procs, p)
          /\ UNCHANGED <<nextSecret, users, sessions, globalCache>>
     ELSE
       LET key == getCacheKey(body.canvas_domain, body.access_token)
           me == [Idle EXCEPT !.link = [NoLink EXCEPT
                                          !.cookie = cookie,
                                          !.canvas_domain = body.canvas_domain,
                                          !.access_token = body.access_token]]
           pending == {q \in Procs :
                         /\ procs[q].pc = "provider"
                         /\ getCacheKey(procs[q].link.canvas_domain,
                                        procs[q].link.fetchToken) = key}
       IN IF CanvasCacheHit(key)
          THEN /\ globalCache' = globalCache
               /\ LinkUser(p, MarkOverlap(procs, p), me, globalCache[key].data)
          ELSE /\ globalCache' = CanvasCacheAfterGet(key)
               /\ UNCHANGED <<nextSecret, users, sessions, last>>
               /\ procs' = [MarkOverlap(procs, p) EXCEPT ![p] =
                    [me EXCEPT
                       !.pc = "provider",
                       !.link.fetchToken =
                          IF pending # {}
                          THEN procs[CHOOSE q \in pending : TRUE].link.fetchToken
                          ELSE body.access_token]]

\* The fetch has answered: 401 when the provider refuses the token the fetch
\* carried; otherwise the request that made the fetch caches the profile,
\* and the handler goes on with it.
TokenLoginProvider(p) ==
  /\ procs[p].pc = "provider"
  /\ UNCHANGED <<now, advances, apiKeyCache, auth_codes, oauth_tokens, issued,
                 retired, minted, magic_links, revealed, ENCRYPTION_KEY,
                 pendingRequests, upstream>>
  /\ LET me == procs[p]
         own == me.link.fetchToken = me.link.access_token
     IN IF ~ProviderKnows(me.link.canvas_domain, me.link.fetchToken)
        THEN /\ last' = TokenLoginResponse(401, 0, 0, 0, FALSE)
             /\ procs' = [procs EXCEPT ![p] = Idle]
             /\ UNCHANGED <<nextSecret, users, sessions, globalCache>>
        ELSE LET canvasUser == getCurrentUser(me.link.canvas_domain,
                                              me.link.fetchToken)
             IN /\ globalCache' =
                     IF own
                     THEN CanvasCacheSet(getCacheKey(me.link.canvas_domain,
                                                     me.link.access_token),
                                         canvasUser)
                     ELSE globalCache
                /\ LinkUser(p, procs, [me EXCEPT !.link.validated = own],
                            canvasUser)

\* hashApiKey has answered: the UPDATE or INSERT of the user, the session, and
\* the response.
TokenLoginFinish(p) ==
  /\ UNCHANGED <<magic_links, globalCache, revealed, ENCRYPTION_KEY,
                 pendingRequests, upstream>>
  /\ procs[p].pc \in {"hashUpdate", "hashExisting", "hashNew"}
  /\ UNCHANGED <<now, advances, apiKeyCache, auth_codes, oauth_tokens, retired,
                 minted>>
  /\ LET me == procs[p]
         userId == IF me.pc = "hashNew" THEN Len(users) + 1 ELSE me.userId
     IN /\ users' = IF me.pc = "hashNew"
                    THEN InsertUserRow(me.link, hashApiKey(me.newApiKey))
                    ELSE UpdateUserRow(me.userId, me.link, hashApiKey(me.newApiKey))
        /\ issued' = issued @@ (me.newApiKey :> IssuedKey(userId))
        /\ procs' = [procs EXCEPT ![p] = Idle]
        /\ IF me.pc = "hashUpdate"
           THEN \* DB.updateSession(session.id, { api_key })
                /\ sessions' = IF me.link.cookie \in DOMAIN sessions
                               THEN [sessions EXCEPT ![me.link.cookie].api_key =
                                       me.newApiKey]
                               ELSE sessions
                /\ nextSecret' = nextSecret
                /\ last' = TokenLoginResponse(200, userId, me.newApiKey, 0,
                                           me.link.validated)
           ELSE /\ nextSecret <= MaxSecrets
                /\ nextSecret' = nextSecret + 1
                /\ sessions' = sessions @@
                     (nextSecret :> NewSessionRow(userId, me.newApiKey))
                /\ last' = TokenLoginResponse(200, userId, me.newApiKey, nextSecret,
                                           me.link.validated)

\* ------------------------------------------------------------ /api/user/me
\* GET /api/user/me: the response
MeResponse(cookie) ==
  IF SessionUser(cookie) = 0
  THEN [status |-> 401, userId |-> 0, api_key |-> 0]
  ELSE IF ~UserExists(SessionUser(cookie))
  THEN [status |-> 404, userId |-> 0, api_key |-> 0]
  ELSE [status |-> 200, userId |-> SessionUser(cookie),
        api_key |-> sessions[cookie].api_key]

\* A handler that shows the key and leaves it in the session.
clearApiKeyFromSessionForgotten(sessionId) == sessions

\* DB.clearApiKeyFromSession
clearApiKeyFromSession(sessionId) ==
  [sessions EXCEPT ![sessionId].api_key = 0]

\* GET /api/user/me
UserMe(cookie) ==
  /\ procs' = MarkOverlap(procs, 0)
  /\ UNCHANGED <<now, advances, nextSecret, users, apiKeyCache, auth_codes,
                 oauth_tokens, last, issued, retired, minted, magic_links,
                 globalCache, ENCRYPTION_KEY,
                 pendingRequests, upstream>>
  /\ IF MeResponse(cookie).status = 200 /\ MeResponse(cookie).api_key # 0
     THEN /\ sessions' = clearApiKeyFromSession(cookie)
          /\ revealed' =
               LET k == MeResponse(cookie).api_key
               IN [x \in DOMAIN revealed \cup {k} |->
                     IF x = k
                     THEN (IF k \in DOMAIN revealed THEN revealed[k] ELSE 0) + 1
                     ELSE revealed[x]]
     ELSE UNCHANGED <<sessions, revealed>>

\* INSERT INTO users (email) VALUES (?)
PlaceholderUser(id, email) ==
  [id |-> id, canvas_user_id |-> NULL, canvas_domain |-> NULL, email |-> email,
   canvas_access_token |-> NoToken, mcp_api_key |-> NoHash]

\* ------------------------------------------------------------ magic links
\* Addresses posted to /api/auth/request-magic-link; NULL is an absent field.
Emails == {NULL, "ann@a.edu", "bob@b.edu", "bob@b", "b ob@b.edu"}

\* /^[^\s@]+@[^\s@]+\.[^\s@]+$/.test(email)
ValidEmail(email) ==
  LET c == [i \in 1..Len(email) |-> SubSeq(email, i, i)]
      ats == {i \in 1..Len(email) : c[i] = "@"}
  IN /\ Cardinality(ats) = 1
     /\ \A i \in 1..Len(email) : c[i] # " "
     /\ \E a \in ats :
          /\ a > 1
          /\ \E d \in (a + 2)..(Len(email) - 1) : c[d] = "."

\* DEFAULT (unixepoch() * 1000): the present time in whole seconds
UnixEpochMs == [s |-> now.s, ms |-> 0]

\* DB.canSendMagicLink: no row of the address has created_at > now - cooldown
canSendMagicLink(email, cooldownMs) ==
  ~\E i \in 1..Len(magic_links) :
      /\ magic_links[i].email = email
      /\ TLess(now, TPlus(magic_links[i].created_at, cooldownMs))

\* DB.getLastMagicLinkTime: 0 for null.  (created_at never decreases with id.)
getLastMagicLinkTime(email) ==
  LET rows == {i \in 1..Len(magic_links) : magic_links[i].email = email}
  IN IF rows = {} THEN Ms(0)
     ELSE magic_links[CHOOSE i \in rows : \A j \in rows : j <= i].created_at

\* Math.ceil(ms / 1000) of a non-negative duration
CeilSeconds(d) == d.s + (IF d.ms > 0 THEN 1 ELSE 0)

\* A handler that sends links only to addresses that have an account.
MagicLinkOutcomeKnownOnly(email) ==
  IF email = NULL \/ ~ValidEmail(email) THEN "invalid"
  ELSE IF \A u \in 1..Len(users) : users[u].email # email THEN "invalid"
  ELSE IF ~canSendMagicLink(email, Ms(MAGIC_COOLDOWN)) THEN "rate_limited"
  ELSE "created"

\* POST /api/auth/request-magic-link: which return, up to the mail, is taken.
MagicLinkOutcome(email) ==
  IF email = NULL \/ ~ValidEmail(email) THEN "invalid"
  ELSE IF ~canSendMagicLink(email, Ms(MAGIC_COOLDOWN)) THEN "rate_limited"
  ELSE "created"

\* POST /api/auth/request-magic-link: the response of the returns before
\* the mail is sent
MagicLinkResponse(email) ==
  CASE MagicLinkOutcome(email) = "invalid" -> [status |-> 400, wait |-> 0]
    [] MagicLinkOutcome(email) = "rate_limited" ->
         [status |-> 429,
          wait |-> CeilSeconds(TMinus(TPlus(getLastMagicLinkTime(email),
                                            Ms(MAGIC_COOLDOWN)), now))]
    [] OTHER -> [status |-> 0, wait |-> 0]

\* DB.createMagicLink: the row
MagicLinkRow(email, token) ==
  [email |-> email, token |-> token,
   expires_at |-> TPlus(now, Ms(MAGIC_LINK_TTL)), used |-> 0,
   created_at |-> UnixEpochMs]

\* POST /api/auth/request-magic-link up to await Mailer.sendMagicLink
RequestMagicLink(p, email) ==
  /\ Free(p)
  /\ UNCHANGED <<now, advances, users, apiKeyCache, sessions, auth_codes,
                 oauth_tokens, last, issued, retired, minted, globalCache,
                 revealed, ENCRYPTION_KEY,
                 pendingRequests, upstream>>
  /\ IF MagicLinkOutcome(email) = "created"
     THEN /\ nextSecret <= MaxSecrets
          /\ nextSecret' = nextSecret + 1
          /\ magic_links' = Append(magic_links, MagicLinkRow(email, nextSecret))
          /\ procs' = [MarkOverlap(procs, p) EXCEPT ![p] =
                         [Idle EXCEPT !.pc = "mail"]]
     ELSE /\ procs' = MarkOverlap(procs, p)
          /\ UNCHANGED <<nextSecret, magic_links>>

\* A handler that takes the newest link back when the mail fails.
MailAnswerRollsBack(p, sent) ==
  /\ procs[p].pc = "mail"
  /\ procs' = [procs EXCEPT ![p] = Idle]
  /\ last' = [route |-> "/api/auth/request-magic-link",
              status |-> IF sent THEN 200 ELSE 500]
  /\ magic_links' = IF sent THEN magic_links
                    ELSE SubSeq(magic_links, 1, Len(magic_links) - 1)
  /\ UNCHANGED <<now, advances, nextSecret, users, apiKeyCache, sessions,
                 auth_codes, oauth_tokens, issued, retired, minted,
                 globalCache, revealed, ENCRYPTION_KEY,
                 pendingRequests, upstream>>

\* Mailer.sendMagicLink has answered or thrown.
MailAnswer(p, sent) ==
  /\ procs[p].pc = "mail"
  /\ procs' = [procs EXCEPT ![p] = Idle]
  /\ last' = [route |-> "/api/auth/request-magic-link",
              status |-> IF sent THEN 200 ELSE 500]
  /\ UNCHANGED <<now, advances, nextSecret, users, apiKeyCache, sessions,
                 auth_codes, oauth_tokens, issued, retired, minted, magic_links,
                 globalCache, revealed, ENCRYPTION_KEY,
                 pendingRequests, upstream>>

\* Tokens a browser can bring to /auth/verify: none, one that was mailed, or
\* a made-up one.
VerifyTokens == {0, Forged} \cup {magic_links[i].token : i \in 1..Len(magic_links)}

\* A lookup that forgets "AND expires_at > ?".
getMagicLinkAnyAge(token) ==
  LET rows == {i \in 1..Len(magic_links) :
                 /\ magic_links[i].token = token
                 /\ magic_links[i].used = 0}
  IN IF rows = {} THEN 0 ELSE CHOOSE i \in rows : TRUE

\* DB.getMagicLink: the row's id, 0 for none
getMagicLink(token) ==
  LET rows == {i \in 1..Len(magic_links) :
                 /\ magic_links[i].token = token
                 /\ TLess(now, magic_links[i].expires_at)
                 /\ magic_links[i].used = 0}
  IN IF rows = {} THEN 0 ELSE CHOOSE i \in rows : TRUE

\* A verification that leaves the link unused.
markMagicLinkUsedForgotten(token) == magic_links

\* DB.markMagicLinkUsed
markMagicLinkUsed(token) ==
  [i \in 1..Len(magic_links) |->
     IF magic_links[i].token = token
     THEN [magic_links[i] EXCEPT !.used = 1]
     ELSE magic_links[i]]

\* DB.getUserByEmail: the id of the first row with the address, 0 for none
getUserByEmail(email) ==
  LET rows == {u \in 1..Len(users) : users[u].email = email}
  IN IF rows = {} THEN 0 ELSE CHOOSE u \in rows : \A v \in rows : u <= v

\* GET /auth/verify: which return of the handler is taken.
VerifyOutcome(token) ==
  IF token = 0 THEN "missing"
  ELSE IF getMagicLink(token) = 0 THEN "invalid"
  ELSE "signed_in"

\* GET /auth/verify: the response
VerifyResponse(token) ==
  CASE VerifyOutcome(token) = "missing" ->
         [status |-> 400, body |-> "Missing token", cookie |-> 0]
    [] VerifyOutcome(token) = "invalid" ->
         [status |-> 200, body |-> "Invalid or Expired Link", cookie |-> 0]
    [] OTHER ->
         [status |-> 302, body |-> "/dashboard", cookie |-> nextSecret]

\* GET /auth/verify
Verify(token) ==
  /\ token \in VerifyTokens
  /\ procs' = MarkOverlap(procs, 0)
  /\ UNCHANGED <<now, advances, apiKeyCache, auth_codes, oauth_tokens, last,
                 retired, minted, globalCache, revealed, ENCRYPTION_KEY,
                 pendingRequests, upstream>>
  /\ IF VerifyOutcome(token) = "signed_in"
     THEN LET email == magic_links[getMagicLink(token)].email
              found == getUserByEmail(email)
              userId == IF found = 0 THEN Len(users) + 1 ELSE found
          IN /\ nextSecret <= MaxSecrets
             /\ nextSecret' = nextSecret + 1
             /\ magic_links' = markMagicLinkUsed(token)
             /\ users' = IF found = 0
                         THEN Append(users, PlaceholderUser(userId, email))
                         ELSE users
             /\ sessions' = sessions @@ (nextSecret :> NewSessionRow(userId, 0))
             /\ issued' = issued @@ (nextSecret :> IssuedSession(userId, token))
     ELSE UNCHANGED <<nextSecret, magic_links, users, sessions, issued>>

\* ------------------------------------------------------------ tools/call
\* call_tool: the CanvasClient built from the row of the authenticated user
ToolClient(userId) ==
  [domain |-> users[userId].canvas_domain,
   token |-> decrypt(users[userId].canvas_access_token)]

\* call_tool of the request the gate has just dispatched as userId
CallTool(userId) ==
  /\ last.route = "/mcp" /\ last.status = 200 /\ last.userId = userId
  /\ last.at = now
  /\ last' = IF UserExists(userId) /\ CipherUsable
             THEN [route |-> "tools/call", status |-> 200, userId |-> userId,
                   token |-> last.token, client |-> ToolClient(userId)]
             ELSE [route |-> "tools/call", status |-> 500, userId |-> userId,
                   token |-> last.token, client |-> [domain |-> NULL, token |-> NULL]]
  /\ UNCHANGED <<now, advances, nextSecret, users, apiKeyCache, sessions,
                 auth_codes, oauth_tokens, procs, issued, retired, minted,
                 magic_links, globalCache, revealed, ENCRYPTION_KEY,
                 pendingRequests, upstream>>

\* error.message of what server.connect or transport.handleRequest can
\* throw: an Error without a message, or one that carries internal text.
InternalErrors == {"", "SQLITE_BUSY: database is locked",
                   "Cannot read properties of undefined (reading 'id')"}

\* handleMcpRequest, the catch: the JSON-RPC error sent to the client
InternalErrorResponse(apiToken, userId, message) ==
  [route |-> "/mcp", token |-> apiToken, status |-> 500, code |-> -32603,
   message |-> IF message = "" THEN "Internal server error" ELSE message,
   hint |-> NULL, userId |-> userId, via |-> "catch", at |-> now]

\* The transport of the request the gate has just dispatched as userId throws.
DispatchFails(userId, message) ==
  /\ last.route = "/mcp" /\ last.status = 200 /\ last.userId = userId
  /\ last.at = now
  /\ last' = InternalErrorResponse(last.token, userId, message)
  /\ UNCHANGED <<now, advances, nextSecret, users, apiKeyCache, sessions,
                 auth_codes, oauth_tokens, procs, issued, retired, minted,
                 magic_links, globalCache, revealed, ENCRYPTION_KEY,
                 pendingRequests, upstream>>

\* ------------------------------------------------- CanvasClient.request
\* What the provider holds: the active courses of an institution and the
\* announcements of each course.
CoursesOf(domain) == << [id |-> "c1"], [id |-> "c2"] >>

AnnouncementsOf(courseId) ==
  IF courseId = "c1"
  THEN << [id |-> 11, posted_at |-> 30], [id |-> 12, posted_at |-> 10] >>
  ELSE << [id |-> 21, posted_at |-> 20] >>

\* listCourses({enrollment_state: "active"})
CoursesPath == "/courses?enrollment_state=active"

\* The path of the per-course request of getCourseAnnouncements
AnnouncementsPath(courseId) ==
  "/courses/" \o courseId \o "/discussion_topics?only_announcements=true&per_page=5"

Paths == {CoursesPath} \cup {AnnouncementsPath(c) : c \in {"c1", "c2"}}

\* response.json() of a 2xx answer to GET path
UpstreamData(domain, path) ==
  IF path = CoursesPath THEN CoursesOf(domain)
  ELSE IF path = AnnouncementsPath("c1") THEN AnnouncementsOf("c1")
  ELSE AnnouncementsOf("c2")

\* CanvasClient.getCacheKey(path)
getCacheKeyPath(domain, accessToken, path) ==
  [domain |-> domain, tokenHash |-> Last8(accessToken), path |-> path]

NoPromise == [owner |-> 0, key |-> getCacheKeyPath(NULL, NULL, NULL), token |-> NULL]

\* The state of SimpleCache and of the network that a request reads and writes.
ClientState ==
  [cache |-> globalCache, pending |-> pendingRequests, upstream |-> upstream]

\* A request that starts its own fetch although one is pending for the key.
RequestNoDedup(cs, p, cl, path) ==
  LET key == getCacheKeyPath(cl.domain, cl.token, path)
      hit == key \in DOMAIN cs.cache /\ ~TLess(cs.cache[key].expiresAt, now)
      cacheAfter == IF key \in DOMAIN cs.cache /\ ~hit
                    THEN Drop(cs.cache, key) ELSE cs.cache
      promise == [owner |-> p, key |-> key, token |-> cl.token]
  IN IF hit
     THEN [cs |-> cs, kind |-> "hit", data |-> cs.cache[key].data,
           promise |-> NoPromise]
     ELSE [cs |-> [cache |-> cacheAfter,
                   pending |-> [k \in DOMAIN cs.pending \cup {key} |->
                                  IF k = key THEN promise ELSE cs.pending[k]],
                   upstream |-> cs.upstream \cup {promise}],
           kind |-> "wait", data |-> << >>, promise |-> promise]

\* CanvasClient.request(path), a GET by handler p with the client cl, up to
\* its await: the cached data; or the promise of the fetch in flight for the
\* cache key; or a new fetch, registered as pending.
Request(cs, p, cl, path) ==
  LET key == getCacheKeyPath(cl.domain, cl.token, path)
      hit == key \in DOMAIN cs.cache /\ ~TLess(cs.cache[key].expiresAt, now)
      cacheAfter == IF key \in DOMAIN cs.cache /\ ~hit
                    THEN Drop(cs.cache, key) ELSE cs.cache
      promise == [owner |-> p, key |-> key, token |-> cl.token]
  IN IF hit
     THEN [cs |-> cs, kind |-> "hit", data |-> cs.cache[key].data,
           promise |-> NoPromise]
     ELSE IF key \in DOMAIN cs.pending
     THEN [cs |-> [cs EXCEPT !.cache = cacheAfter], kind |-> "wait",
           data |-> << >>, promise |-> cs.pending[key]]
     ELSE [cs |-> [cache |-> cacheAfter,
                   pending |-> cs.pending @@ (key :> promise),
                   upstream |-> cs.upstream \cup {promise}],
           kind |-> "wait", data |-> << >>, promise |-> promise]

\* ------------------------------------------------------- tool results
\* call_tool: the result of a tool that returned content
ToolResult(call, content) ==
  [tool |-> call.tool, userId |-> call.userId, limit |-> call.limit,
   isError |-> FALSE, content |-> content, failed |-> {}]

\* call_tool: the catch
ToolError(call) ==
  [tool |-> call.tool, userId |-> call.userId, limit |-> call.limit,
   isError |-> TRUE, content |-> << >>, failed |-> {}]

\* announcements.forEach(a => a.course_id = course.id)
Tagged(items, courseId) ==
  [i \in 1..Len(items) |->
     [id |-> items[i].id, posted_at |-> items[i].posted_at, course_id |-> courseId]]

\* Array.prototype.sort with (a, b) => b.posted_at - a.posted_at: stable
RECURSIVE SortRecent(_)
SortRecent(items) ==
  IF items = << >> THEN << >>
  ELSE LET rest == SortRecent(Tail(items))
           x == Head(items)
           before == SelectSeq(rest, LAMBDA y : y.posted_at > x.posted_at)
           after == SelectSeq(rest, LAMBDA y : y.posted_at <= x.posted_at)
       IN before \o << x >> \o after

\* slice(0, limit)
Slice(items, limit) ==
  SubSeq(items, 1, IF Len(items) < limit THEN Len(items) ELSE limit)

\* announcementArrays.flat(): the per-course arrays in course order, [] for
\* a course whose request failed
RECURSIVE Flat(_, _)
Flat(courses, parts) ==
  IF courses = << >> THEN << >>
  ELSE LET part == parts[AnnouncementsPath(Head(courses).id)]
       IN (IF part.ok THEN Tagged(part.data, Head(courses).id) ELSE << >>)
          \o Flat(Tail(courses), parts)

\* An aggregation that gives up when a per-course request failed.
AggregateAllOrNothing(call) ==
  IF \E path \in DOMAIN call.parts : ~call.parts[path].ok
  THEN ToolError(call)
  ELSE [ToolResult(call, Slice(SortRecent(Flat(call.courses, call.parts)),
                               call.limit))
          EXCEPT !.failed = {}]

\* getCourseAnnouncements without a course, after Promise.all
Aggregate(call) ==
  [ToolResult(call, Slice(SortRecent(Flat(call.courses, call.parts)), call.limit))
     EXCEPT !.failed = {path \in DOMAIN call.parts : ~call.parts[path].ok}]

\* The per-course requests of getCourseAnnouncements, started one after the
\* other in courses.map: each is a cache hit, joins a fetch, or starts one.
RECURSIVE Fanout(_, _, _, _, _)
Fanout(cs, p, cl, courses, call) ==
  IF courses = << >> THEN [cs |-> cs, call |-> call]
  ELSE LET path == AnnouncementsPath(Head(courses).id)
           r == Request(cs, p, cl, path)
           next == IF r.kind = "hit"
                   THEN [call EXCEPT !.parts =
                           call.parts @@ (path :> [ok |-> TRUE, data |-> r.data])]
                   ELSE [call EXCEPT !.awaits = call.awaits \cup {r.promise}]
       IN Fanout(r.cs, p, cl, Tail(courses), next)

\* The token and domain the handler's CanvasClient was built with.
ClientOf(call) == ToolClient(call.userId)

\* The handler p continues with the answer to its first request, the course
\* list: a failure is the tool's failure; list_courses returns the list;
\* get_announcements starts the per-course requests.
AfterCourses(cs, p, call, ok, data) ==
  IF ~ok THEN [cs |-> cs, call |-> call, done |-> TRUE, result |-> ToolError(call)]
  ELSE IF call.tool = "list_courses"
  THEN [cs |-> cs, call |-> call, done |-> TRUE, result |-> ToolResult(call, data)]
  ELSE LET f == Fanout(cs, p, ClientOf(call), data,
                       [call EXCEPT !.courses = data, !.awaits = {}])
       IN [cs |-> f.cs, call |-> f.call, done |-> f.call.awaits = {},
           result |-> IF f.call.awaits = {} THEN Aggregate(f.call)
                      ELSE ToolError(call)]

\* The handler p continues with the answer to one per-course request: the
\* .then or the .catch of that request, and the aggregation once all of
\* them have settled.
AfterPart(cs, p, call, promise, ok, data) ==
  LET next == [call EXCEPT !.awaits = call.awaits \ {promise},
                           !.parts = call.parts @@
                              (promise.key.path :> [ok |-> ok, data |-> data])]
  IN [cs |-> cs, call |-> next, done |-> next.awaits = {},
      result |-> IF next.awaits = {} THEN Aggregate(next) ELSE ToolError(call)]

\* call_tool for list_courses or get_announcements (without a course) by
\* the user the gate resolved, up to the handler's first await.
ToolCall(p, userId, tool, limit) ==
  /\ Free(p)
  /\ UserExists(userId) /\ CipherUsable
  /\ users[userId].canvas_domain # NULL
  /\ LET call == [NoCall EXCEPT !.tool = tool, !.userId = userId, !.limit = limit]
         r == Request(ClientState, p, ClientOf(call), CoursesPath)
         a == IF r.kind = "hit"
              THEN AfterCourses(r.cs, p, call, TRUE, r.data)
              ELSE [cs |-> r.cs, call |-> [call EXCEPT !.awaits = {r.promise}],
                    done |-> FALSE, result |-> ToolError(call)]
     IN /\ globalCache' = a.cs.cache
        /\ pendingRequests' = a.cs.pending
        /\ upstream' = a.cs.upstream
        /\ IF a.done
           THEN /\ procs' = MarkOverlap(procs, p)
                /\ last' = [route |-> "tools/result", at |-> now,
                            answers |-> (p :> a.result),
                            fetch |-> NoPromise, ok |-> TRUE]
           ELSE /\ procs' = [MarkOverlap(procs, p) EXCEPT ![p] =
                     [Idle EXCEPT !.pc = IF a.call.courses = << >>
                                         THEN "courses" ELSE "fanout",
                                  !.call = a.call]]
                /\ last' = last
  /\ UNCHANGED <<now, advances, nextSecret, users, apiKeyCache, sessions,
                 auth_codes, oauth_tokens, issued, retired, minted, magic_links,
                 revealed, ENCRYPTION_KEY>>

\* The handlers that await the promise, the one that started the fetch first.
Waiters(promise) ==
  LET W == {q \in Procs : promise \in procs[q].call.awaits}
      first == W \cap {promise.owner}
      RECURSIVE Ordered(_)
      Ordered(S) == IF S = {} THEN << >>
                    ELSE LET q == CHOOSE x \in S : \A y \in S : x <= y
                         IN << q >> \o Ordered(S \ {q})
  IN Ordered(first) \o Ordered(W \ first)

\* The continuations of the handlers in order, one after the other in the
\* same turn of the event loop.
RECURSIVE Resume(_, _, _, _, _, _)
Resume(cs, pr, answers, order, promise, ok) ==
  IF order = << >> THEN [cs |-> cs, procs |-> pr, answers |-> answers]
  ELSE LET q == Head(order)
           data == IF ok THEN UpstreamData(promise.key.domain, promise.key.path)
                   ELSE << >>
           a == IF pr[q].pc = "courses"
                THEN AfterCourses(cs, q, pr[q].call, ok, data)
                ELSE AfterPart(cs, q, pr[q].call, promise, ok, data)
       IN Resume(a.cs,
                 [pr EXCEPT ![q] = IF a.done THEN Idle
                                   ELSE [pr[q] EXCEPT !.pc = "fanout",
                                                      !.call = a.call]],
                 IF a.done THEN answers @@ (q :> a.result) ELSE answers,
                 Tail(order), promise, ok)

\* A failed fetch whose marker stays in pendingRequests.
SettledMarkerKept(cs, promise, ok) ==
  [cache |-> IF ok
             THEN [k \in DOMAIN cs.cache \cup {promise.key} |->
                     IF k = promise.key
                     THEN [data |-> UpstreamData(promise.key.domain, promise.key.path),
                           expiresAt |-> TPlus(now, Ms(CANVAS_CACHE_TTL))]
                     ELSE cs.cache[k]]
             ELSE cs.cache,
   pending |-> IF ok /\ promise.key \in DOMAIN cs.pending
               THEN Drop(cs.pending, promise.key) ELSE cs.pending,
   upstream |-> cs.upstream \ {promise}]

\* The fetch has answered: promise.finally deletes the marker of the key,
\* and the request that started the fetch stores a 2xx body in the cache.
Settled(cs, promise, ok) ==
  [cache |-> IF ok
             THEN [k \in DOMAIN cs.cache \cup {promise.key} |->
                     IF k = promise.key
                     THEN [data |-> UpstreamData(promise.key.domain, promise.key.path),
                           expiresAt |-> TPlus(now, Ms(CANVAS_CACHE_TTL))]
                     ELSE cs.cache[k]]
             ELSE cs.cache,
   pending |-> IF promise.key \in DOMAIN cs.pending
               THEN Drop(cs.pending, promise.key) ELSE cs.pending,
   upstream |-> cs.upstream \ {promise}]

\* The provider answers a fetch, with a 2xx body (ok) or with another
\* status, and every handler that awaits it continues; last keeps the fetch,
\* its outcome and the tool results returned in this turn.
UpstreamAnswers(promise, ok) ==
  /\ promise \in upstream
  /\ LET r == Resume(Settled(ClientState, promise, ok), procs, << >>,
                     Waiters(promise), promise, ok)
     IN /\ globalCache' = r.cs.cache
        /\ pendingRequests' = r.cs.pending
        /\ upstream' = r.cs.upstream
        /\ procs' = r.procs
        /\ last' = [route |-> "tools/result", at |-> now, answers |-> r.answers,
                    fetch |-> promise, ok |-> ok]
  /\ UNCHANGED <<now, advances, nextSecret, users, apiKeyCache, sessions,
                 auth_codes, oauth_tokens, issued, retired, minted, magic_links,
                 revealed, ENCRYPTION_KEY>>

\* setInterval: globalCache.cleanup()
CanvasCacheCleanup ==
  /\ globalCache' = [k \in {x \in DOMAIN globalCache :
                              ~TLess(globalCache[x].expiresAt, now)} |->
                       globalCache[k]]
  /\ UNCHANGED <<now, advances, nextSecret, users, apiKeyCache, sessions,
                 auth_codes, oauth_tokens, procs, last, issued, retired, minted,
                 magic_links, revealed, ENCRYPTION_KEY, pendingRequests, upstream>>

\* ------------------------------------------------------------------ timers
\* The clock moves by the duration d.
Advance(d) ==
  /\ UNCHANGED <<magic_links, globalCache, revealed, ENCRYPTION_KEY,
                 pendingRequests, upstream>>
  /\ advances < MaxAdvances
  /\ now' = TPlus(now, d)
  /\ advances' = advances + 1
  /\ UNCHANGED <<nextSecret, users, apiKeyCache, sessions, auth_codes,
                 oauth_tokens, procs, last, issued, retired, minted>>

\* A cleanup that also deletes the entries whose age is exactly the TTL.
CacheSweepAtTtl ==
  /\ UNCHANGED <<magic_links, globalCache, revealed, ENCRYPTION_KEY,
                 pendingRequests, upstream>>
  /\ apiKeyCache' = [k \in {x \in DOMAIN apiKeyCache :
                              TLess(TMinus(now, apiKeyCache[x].verifiedAt), Ms(CACHE_TTL))} |->
                       apiKeyCache[k]]
  /\ UNCHANGED <<now, advances, nextSecret, users, sessions, auth_codes,
                 oauth_tokens, procs, last, issued, retired, minted>>

\* setInterval: the cache cleanup
CacheSweep ==
  /\ UNCHANGED <<magic_links, globalCache, revealed, ENCRYPTION_KEY,
                 pendingRequests, upstream>>
  /\ apiKeyCache' = [k \in {x \in DOMAIN apiKeyCache :
                              ~TLess(Ms(CACHE_TTL), TMinus(now, apiKeyCache[x].verifiedAt))} |->
                       apiKeyCache[k]]
  /\ UNCHANGED <<now, advances, nextSecret, users, sessions, auth_codes,
                 oauth_tokens, procs, last, issued, retired, minted>>

\* ------------------------------------------------------------ initial states
\* A user row as /api/auth/token-login leaves it for a new user.
LinkedUser(id, canvasId, domain, email, accessToken, apiKey) ==
  [id |-> id, canvas_user_id |-> canvasId, canvas_domain |-> domain,
   email |-> email, canvas_access_token |-> encrypt(accessToken),
   mcp_api_key |-> hashApiKey(apiKey)]

\* A session row as DB.createSession writes it at time 0.
SessionRow(userId) ==
  [user_id |-> userId, api_key |-> 0, expires_at |-> TPlus(Ms(0), Secs(SESSION_MAX_AGE))]

\* Two users have logged in with provider tokens (keys 1 and 2, sessions 3 and
\* 4) and have read their keys from the dashboard.
InitKey ==
  /\ now = Ms(0)
  /\ advances = 0
  /\ nextSecret = 5
  /\ users = << LinkedUser(1, "101", "a.edu", "ann@a.edu", "tokA", 1),
                LinkedUser(2, "202", "b.edu", "bob@b.edu", "tokB", 2) >>
  /\ apiKeyCache = << >>
  /\ sessions = (3 :> SessionRow(1)) @@ (4 :> SessionRow(2))
  /\ auth_codes = << >>
  /\ oauth_tokens = << >>
  /\ procs = [p \in Procs |-> Idle]
  /\ last = NoResponse
  /\ issued = (1 :> IssuedKey(1)) @@ (2 :> IssuedKey(2))
  /\ retired = {}
  /\ minted = << >>
  /\ magic_links = << >>
  /\ globalCache = << >>
  /\ revealed = << >>
  /\ ENCRYPTION_KEY = 32
  /\ pendingRequests = << >>
  /\ upstream = {}

NextKey ==
  \/ \E p \in Procs, t \in Presentable : GateStart(p, t)
  \/ \E p \in Procs : GateVerify(p)
  \/ \E p \in Procs, c \in Cookies : RegenStart(p, c)
  \/ \E p \in Procs : RegenFinish(p)
  \/ \E d \in {Ms(CACHE_TTL + 1)} : Advance(d)
  \/ CacheSweep

SpecKey == InitKey /\ [][NextKey]_vars

\* A user row as /auth/verify leaves it for a new e-mail address.
\* User 1 has logged in with a provider token (key 1, session 2); user 2 has
\* signed in by magic link (session 3) and has not connected Canvas.
InitOAuth ==
  /\ now = Ms(0)
  /\ advances = 0
  /\ nextSecret = 4
  /\ users = << LinkedUser(1, "101", "a.edu", "ann@a.edu", "tokA", 1),
                PlaceholderUser(2, "bob@b.edu") >>
  /\ apiKeyCache = << >>
  /\ sessions = (2 :> SessionRow(1)) @@ (3 :> SessionRow(2))
  /\ auth_codes = << >>
  /\ oauth_tokens = << >>
  /\ procs = [p \in Procs |-> Idle]
  /\ last = NoResponse
  /\ issued = (1 :> IssuedKey(1))
  /\ retired = {}
  /\ minted = << >>
  /\ magic_links = << >>
  /\ globalCache = << >>
  /\ revealed = << >>
  /\ ENCRYPTION_KEY = 32
  /\ pendingRequests = << >>
  /\ upstream = {}

NextOAuth ==
  \/ \E c \in Cookies, f \in ConsentForms : Consent(c, f)
  \/ \E b \in TokenBodies : Token(b)
  \/ \E p \in Procs, t \in Presentable : GateStart(p, t)
  \/ \E p \in Procs : GateVerify(p)
  \/ \E d \in {Ms(AUTH_CODE_TTL), Ms(OAUTH_TOKEN_TTL), Secs(SESSION_MAX_AGE)} :
        Advance(d)

SpecOAuth == InitOAuth /\ [][NextOAuth]_vars

\* The same store under every query of /auth/authorize, consent posts, and
\* the clock passing the expiry of codes and of sessions.
NextAuthorize ==
  \/ \E c \in Cookies, q \in AuthorizeQueries : Authorize(c, q)
  \/ \E c \in Cookies, f \in ConsentForms : Consent(c, f)
  \/ \E b \in TokenBodies : Token(b)
  \/ \E d \in {Ms(AUTH_CODE_TTL), Secs(SESSION_MAX_AGE)} : Advance(d)

SpecAuthorize == InitOAuth /\ [][NextAuthorize]_vars

\* Bob has signed in by magic link in two browsers (user 1, sessions 1 and 2)
\* and has not connected Canvas: the row has no key hash.  Ann has no row yet.
InitLink ==
  /\ now = Ms(0)
  /\ advances = 0
  /\ nextSecret = 3
  /\ users = << PlaceholderUser(1, "bob@b.edu") >>
  /\ apiKeyCache = << >>
  /\ sessions = (1 :> SessionRow(1)) @@ (2 :> SessionRow(1))
  /\ auth_codes = << >>
  /\ oauth_tokens = << >>
  /\ procs = [p \in Procs |-> Idle]
  /\ last = NoResponse
  /\ issued = << >>
  /\ retired = {}
  /\ minted = << >>
  /\ magic_links = << >>
  /\ globalCache = << >>
  /\ revealed = << >>
  /\ ENCRYPTION_KEY = 32
  /\ pendingRequests = << >>
  /\ upstream = {}

NextLink ==
  \/ \E p \in Procs, c \in Cookies, b \in LoginBodies : TokenLoginStart(p, c, b)
  \/ \E p \in Procs : TokenLoginProvider(p)
  \/ \E p \in Procs : TokenLoginFinish(p)
  \/ Advance(Secs(SESSION_MAX_AGE))

SpecLink == InitLink /\ [][NextLink]_vars

\* Bob connects Canvas from his browsers, with or without their session
\* cookies, and the dashboards read /api/user/me and regenerate the key.
NextMe ==
  \/ \E p \in Procs, c \in Cookies :
        TokenLoginStart(p, c, [canvas_domain |-> "b.edu", access_token |-> "tokB"])
  \/ \E p \in Procs : TokenLoginProvider(p)
  \/ \E p \in Procs : TokenLoginFinish(p)
  \/ \E c \in Cookies : UserMe(c)
  \/ \E p \in Procs, c \in Cookies : RegenStart(p, c)
  \/ \E p \in Procs : RegenFinish(p)
  \/ Advance(Secs(SESSION_MAX_AGE))

SpecMe == InitLink /\ [][NextMe]_vars

\* The API keys handed out.
IssuedApiKeys == {k \in DOMAIN issued : issued[k].kind = "key"}

\* The store of InitOAuth under logins from two institutions by browsers
\* without a session cookie, MCP clients presenting API keys, their tool
\* calls, and the clock passing the lifetime of a cached profile.
NextLogin ==
  \/ \E p \in Procs, b \in LoginBodiesAcross : TokenLoginStart(p, 0, b)
  \/ \E p \in Procs : TokenLoginProvider(p)
  \/ \E p \in Procs : TokenLoginFinish(p)
  \/ \E p \in Procs, t \in IssuedApiKeys : GateStart(p, t)
  \/ \E p \in Procs : GateVerify(p)
  \/ \E u \in 1..Len(users) : CallTool(u)
  \/ Advance(Ms(CANVAS_CACHE_TTL + 1))

SpecLogin == InitOAuth /\ [][NextLogin]_vars

\* Ann is linked (user 1, key 1, session 2) and the clock stands 700 ms past
\* a full second.  Visitors ask for magic links and follow them.
InitMagic ==
  /\ now = Ms(700)
  /\ advances = 0
  /\ nextSecret = 3
  /\ users = << LinkedUser(1, "101", "a.edu", "ann@a.edu", "tokA", 1) >>
  /\ apiKeyCache = << >>
  /\ sessions = (2 :> SessionRow(1))
  /\ auth_codes = << >>
  /\ oauth_tokens = << >>
  /\ procs = [p \in Procs |-> Idle]
  /\ last = NoResponse
  /\ issued = (1 :> IssuedKey(1))
  /\ retired = {}
  /\ minted = << >>
  /\ magic_links = << >>
  /\ globalCache = << >>
  /\ revealed = << >>
  /\ ENCRYPTION_KEY = 32
  /\ pendingRequests = << >>
  /\ upstream = {}

NextMagic ==
  \/ \E p \in Procs, e \in Emails : RequestMagicLink(p, e)
  \/ \E p \in Procs, sent \in BOOLEAN : MailAnswer(p, sent)
  \/ \E t \in 0..Forged : Verify(t)
  \/ \E d \in {Ms(MAGIC_COOLDOWN - 500), Ms(MAGIC_COOLDOWN), Ms(MAGIC_LINK_TTL)} :
        Advance(d)

SpecMagic == InitMagic /\ [][NextMagic]_vars

\* Ann and Bob present keys at /mcp around the moment a cache entry's age
\* reaches the TTL, and the cleanup interval fires.
NextCache ==
  \/ \E p \in Procs, t \in Presentable : GateStart(p, t)
  \/ \E p \in Procs : GateVerify(p)
  \/ \E d \in {Ms(CACHE_TTL - 1), Ms(CACHE_TTL), Ms(CACHE_TTL + 1)} : Advance(d)
  \/ CacheSweep

SpecCache == InitKey /\ [][NextCache]_vars

\* setInterval fires every five minutes for as long as the process runs.
SpecSweep == InitKey /\ [][NextCache]_vars /\ WF_vars(CacheSweep)

\* Ann is linked (user 1, key 1, session 2).  Codes, tokens, magic links and
\* sessions are made, and the clock passes the lifetime of each kind.
InitExpiry ==
  /\ now = Ms(0)
  /\ advances = 0
  /\ nextSecret = 3
  /\ users = << LinkedUser(1, "101", "a.edu", "ann@a.edu", "tokA", 1) >>
  /\ apiKeyCache = << >>
  /\ sessions = (2 :> SessionRow(1))
  /\ auth_codes = << >>
  /\ oauth_tokens = << >>
  /\ procs = [p \in Procs |-> Idle]
  /\ last = NoResponse
  /\ issued = (1 :> IssuedKey(1))
  /\ retired = {}
  /\ minted = << >>
  /\ magic_links = << >>
  /\ globalCache = << >>
  /\ revealed = << >>
  /\ ENCRYPTION_KEY = 32
  /\ pendingRequests = << >>
  /\ upstream = {}

\* Bodies the registered client posts to /auth/token.
ClientTokenBodies ==
  {b \in TokenBodies : /\ b.grant_type = "authorization_code"
                       /\ b.client_id = "cli" /\ b.redirect_uri = "https://cli/cb"}

NextExpiry ==
  \/ \E c \in Cookies, f \in ConsentForms : Consent(c, f)
  \/ \E b \in ClientTokenBodies : Token(b)
  \/ \E p \in Procs, t \in 0..Forged : t \in DOMAIN issued /\ GateStart(p, t)
  \/ \E p \in Procs : GateVerify(p)
  \/ \E p \in Procs : RequestMagicLink(p, "ann@a.edu")
  \/ \E p \in Procs, sent \in BOOLEAN : MailAnswer(p, sent)
  \/ \E t \in 0..Forged : Verify(t)
  \/ \E d \in {Ms(AUTH_CODE_TTL), Ms(MAGIC_LINK_TTL), Ms(OAUTH_TOKEN_TTL),
               Secs(SESSION_MAX_AGE)} : Advance(d)
  \/ CacheSweep

SpecExpiry == InitExpiry /\ [][NextExpiry]_vars

\* The timers the process starts are fair: setInterval keeps firing.
SpecTimers == InitExpiry /\ [][NextExpiry]_vars /\ WF_vars(CacheSweep)

\* Logins that fail at an institution where a user of this server studies
\* and at one where none does, next to one that succeeds.
LoginBodiesFailing ==
  { [canvas_domain |-> "b.edu", access_token |-> "tokB"],
    [canvas_domain |-> "a.edu", access_token |-> "tokB"],
    [canvas_domain |-> "b.edu", access_token |-> "forged-token-b"] }

\* Visitors with and without an account ask for magic links, log in with
\* wrong tokens, and present wrong bearer credentials.
NextEnum ==
  \/ \E p \in Procs, e \in Emails : RequestMagicLink(p, e)
  \/ \E p \in Procs, sent \in BOOLEAN : MailAnswer(p, sent)
  \/ \E t \in 0..Forged : Verify(t)
  \/ \E p \in Procs, b \in LoginBodiesFailing : TokenLoginStart(p, 0, b)
  \/ \E p \in Procs : TokenLoginProvider(p)
  \/ \E p \in Procs : TokenLoginFinish(p)
  \/ \E p \in Procs, t \in 0..Forged : t \in Presentable /\ GateStart(p, t)
  \/ \E p \in Procs : GateVerify(p)
  \/ Advance(Ms(MAGIC_COOLDOWN))

SpecEnum == InitMagic /\ [][NextEnum]_vars

\* Consents, and requests to /auth/token as they arrive on the wire.
NextTokenWire ==
  \/ \E c \in Cookies, f \in ConsentForms : Consent(c, f)
  \/ \E req \in TokenWire : TokenPost(req)
  \/ Advance(Ms(AUTH_CODE_TTL))

SpecTokenWire == InitOAuth /\ [][NextTokenWire]_vars

\* Ann and Bob call /mcp; the dispatch answers or throws.
NextDispatch ==
  \/ \E p \in Procs, t \in Presentable : GateStart(p, t)
  \/ \E p \in Procs : GateVerify(p)
  \/ \E u \in 1..Len(users) : CallTool(u)
  \/ \E u \in 1..Len(users), e \in InternalErrors : DispatchFails(u, e)
  \/ Advance(Ms(CACHE_TTL + 1))

SpecDispatch == InitKey /\ [][NextDispatch]_vars

\* Byte lengths of Buffer.from(process.env.ENCRYPTION_KEY || "", "base64"):
\* no key, a key of the wrong size, a proper key.
KeyLengths == {0, 16, 32}

\* The process has started on an empty store with whatever key it was given.
InitConfig ==
  /\ now = Ms(0)
  /\ advances = 0
  /\ nextSecret = 1
  /\ users = << >>
  /\ apiKeyCache = << >>
  /\ sessions = << >>
  /\ auth_codes = << >>
  /\ oauth_tokens = << >>
  /\ procs = [p \in Procs |-> Idle]
  /\ last = NoResponse
  /\ issued = << >>
  /\ retired = {}
  /\ minted = << >>
  /\ magic_links = << >>
  /\ globalCache = << >>
  /\ revealed = << >>
  /\ ENCRYPTION_KEY \in KeyLengths
  /\ pendingRequests = << >>
  /\ upstream = {}

NextConfig ==
  \/ \E p \in Procs, b \in LoginBodies : TokenLoginStart(p, 0, b)
  \/ \E p \in Procs : TokenLoginProvider(p)
  \/ \E p \in Procs : TokenLoginFinish(p)
  \/ Advance(Ms(CANVAS_CACHE_TTL + 1))

SpecConfig == InitConfig /\ [][NextConfig]_vars

\* The promises the fetches of this model can be.
Promises ==
  [owner : Procs,
   key : {getCacheKeyPath("a.edu", "tokA", path) : path \in Paths},
   token : {"tokA"}]

\* Arguments of get_announcements: limit (the tool's default is 10).
Limits == {2, 10}

\* Ann's MCP client calls list_courses and get_announcements, also while an
\* earlier call is still waiting for the provider; the provider answers each
\* fetch with a 2xx body or with an error status.
NextTools ==
  \/ \E p \in Procs : ToolCall(p, 1, "list_courses", 0)
  \/ \E p \in Procs, limit \in Limits : ToolCall(p, 1, "get_announcements", limit)
  \/ \E f \in Promises, ok \in BOOLEAN : UpstreamAnswers(f, ok)
  \/ Advance(Ms(CANVAS_CACHE_TTL + 1))
  \/ CanvasCacheCleanup

SpecTools == InitExpiry /\ [][NextTools]_vars

\* Bob (pre-activated, user 1, session 1) may regenerate his key in the
\* dashboard, which gives his row a key hash; browsers without a session
\* cookie log in with Bob's and with Ann's Canvas token.
CreateBodies ==
  { [canvas_domain |-> "b.edu", access_token |-> "tokB"],
    [canvas_domain |-> "a.edu", access_token |-> "tokA"] }

NextCreate ==
  \/ \E p \in Procs, b \in CreateBodies : TokenLoginStart(p, 0, b)
  \/ \E p \in Procs : TokenLoginProvider(p)
  \/ \E p \in Procs : TokenLoginFinish(p)
  \/ \E p \in Procs : RegenStart(p, 1)
  \/ \E p \in Procs : RegenFinish(p)
  \/ Advance(Ms(CANVAS_CACHE_TTL + 1))

SpecCreate == InitLink /\ [][NextCreate]_vars

\* Bob (pre-activated, sessions 1 and 2) connects Canvas from his two
\* browsers, and MCP clients present the keys handed out.  No key is
\* regenerated and no row is removed.
NextRefine ==
  \/ \E p \in Procs, c \in {1, 2} :
        TokenLoginStart(p, c, [canvas_domain |-> "b.edu", access_token |-> "tokB"])
  \/ \E p \in Procs : TokenLoginProvider(p)
  \/ \E p \in Procs : TokenLoginFinish(p)
  \/ \E p \in Procs, t \in 0..Forged : t \in Presentable /\ GateStart(p, t)
  \/ \E p \in Procs : GateVerify(p)
  \/ Advance(Ms(CACHE_TTL))

SpecRefine == InitLink /\ [][NextRefine]_vars

\* Ann is activated (user 1, Canvas user 101); Bob has signed in by magic
\* link (user 2, session 3).  Browsers with Bob's session or without one post
\* Canvas tokens to token-login, and visitors follow magic links.
NextUnique ==
  \/ \E p \in Procs, c \in {0, 3}, b \in CreateBodies : TokenLoginStart(p, c, b)
  \/ \E p \in Procs : TokenLoginProvider(p)
  \/ \E p \in Procs : TokenLoginFinish(p)
  \/ \E p \in Procs : RequestMagicLink(p, "bob@b.edu")
  \/ \E p \in Procs, sent \in BOOLEAN : MailAnswer(p, sent)
  \/ \E t \in 0..Forged : Verify(t)
  \/ Advance(Ms(MAGIC_COOLDOWN))

SpecUnique == InitOAuth /\ [][NextUnique]_vars

\* Ann and Bob are activated (keys 1 and 2); Ann's browser holds session 7
\* and Bob has logged out.  Ann authorizes her MCP client, regenerates her
\* key, and clients present keys and OAuth tokens.
InitRegen ==
  /\ now = Ms(0)
  /\ advances = 0
  /\ nextSecret = 3
  /\ users = << LinkedUser(1, "101", "a.edu", "ann@a.edu", "tokA", 1),
                LinkedUser(2, "202", "b.edu", "bob@b.edu", "tokB", 2) >>
  /\ apiKeyCache = << >>
  /\ sessions = (7 :> SessionRow(1))
  /\ auth_codes = << >>
  /\ oauth_tokens = << >>
  /\ procs = [p \in Procs |-> Idle]
  /\ last = NoResponse
  /\ issued = (1 :> IssuedKey(1)) @@ (2 :> IssuedKey(2))
  /\ retired = {}
  /\ minted = << >>
  /\ magic_links = << >>
  /\ globalCache = << >>
  /\ revealed = << >>
  /\ ENCRYPTION_KEY = 32
  /\ pendingRequests = << >>
  /\ upstream = {}

NextRegen ==
  \/ \E f \in ConsentForms :
        f.action = "approve" /\ f.scope = "canvas:read" /\ Consent(7, f)
  \/ \E b \in ClientTokenBodies :
        b.code \in DOMAIN minted /\ b.code_verifier = "v1" /\ Token(b)
  \/ \E p \in Procs, t \in 0..Forged :
        t \in {1, 2} \cup DOMAIN oauth_tokens /\ GateStart(p, t)
  \/ \E p \in Procs : GateVerify(p)
  \/ \E p \in Procs : RegenStart(p, 7)
  \/ \E p \in Procs : RegenFinish(p)
  \/ Advance(Ms(OAUTH_TOKEN_TTL))

SpecRegen == InitRegen /\ [][NextRegen]_vars

\* ================================================================== claims
\* C1: once regenerateApiKey(u) has returned, under any interleaving with
\* getUserByApiKey calls presenting u's previous key, the cache holds no entry
\* mapping the previous key to u.
C1_NoStaleEntryAfterRegenerate ==
  \A r \in retired :
    ~(r.key \in DOMAIN apiKeyCache /\ apiKeyCache[r.key].userId = r.userId)

\* C2: after a regeneration that no other request overlapped, the cache holds
\* no entry for the old key, a request presenting the old key is answered 401
\* and dispatched to nobody, and a request presenting a user's current key is
\* dispatched as that user.
C2_RegenerateInvalidatesOldKey ==
  /\ \A r \in retired : r.clean =>
        /\ r.key \notin DOMAIN apiKeyCache
        /\ (last.route = "/mcp" /\ last.token = r.key) =>
              (last.status = 401 /\ last.userId = 0)
  /\ \A u \in 1..Len(users) :
        (last.route = "/mcp" /\ verifyApiKey(last.token, users[u].mcp_api_key)) =>
          (last.status = 200 /\ last.userId = u)

\* C2 witness: the old key was cached, was replaced by an undisturbed
\* regeneration, and has since been refused at the gate.
C2_Witness ==
  \E r \in retired :
    /\ r.clean /\ r.cached
    /\ last.route = "/mcp" /\ last.token = r.key /\ last.status = 401

\* C3 as stated: for every user, the link requests return at most one
\* plaintext API key, and once no link request is suspended every key
\* returned verifies against the hash stored for the user.
C3_LinkIssuesOneKey ==
  (\A p \in Procs : procs[p].pc = "idle") =>
    \A u \in 1..Len(users) :
      LET keys == {k \in DOMAIN issued :
                     issued[k].kind = "key" /\ issued[k].userId = u}
      IN /\ Cardinality(keys) <= 1
         /\ \A k \in keys : verifyApiKey(k, users[u].mcp_api_key)

\* Some token was issued for the code.
Exchanged(code) ==
  \E t \in DOMAIN issued : issued[t].kind = "oauth" /\ issued[t].code = code

\* The body names the authorization_code grant and carries a code, a verifier
\* and a client id.
WellFormed(b) ==
  /\ b.grant_type = "authorization_code"
  /\ b.code # 0 /\ b.code_verifier # NULL /\ b.client_id # NULL

\* The body carries the verifier, client id and redirect URI of the consent
\* that minted its code.
MatchesConsent(b) ==
  /\ WellFormed(b)
  /\ b.code \in DOMAIN minted
  /\ S256(b.code_verifier) = minted[b.code].code_challenge
  /\ b.client_id = minted[b.code].client_id
  /\ b.redirect_uri = minted[b.code].redirect_uri

\* C11 as stated: the provider domain behind a user's API key is never
\* replaced: while a user row has a key hash and a domain, tool calls
\* authenticated as that user keep going to that domain.
C11_KeyStaysWithItsInstitution ==
  [][ \A u \in 1..Len(users) :
        (users[u].mcp_api_key # NoHash /\ users[u].canvas_domain # NULL) =>
          ToolClient(u)'.domain = ToolClient(u).domain ]_vars

\* C12 as stated: a token-login that succeeds, and so created or updated a
\* user or a session, is one during which the provider was asked about
\* exactly the presented domain and token and answered with a profile.
C12_LoginValidatedByProvider ==
  (last.route = "/api/auth/token-login" /\ last.status = 200) => last.validated

\* C13 as stated: no row of a table holds the plaintext of an issued API key.
C13_NoPlaintextKeyStored ==
  \A sid \in DOMAIN sessions : sessions[sid].api_key \notin IssuedApiKeys

C15_KeyImpliesActivated ==
  \A u \in 1..Len(users) :
    users[u].mcp_api_key # NoHash =>
      /\ users[u].canvas_user_id # NULL
      /\ users[u].canvas_domain # NULL
      /\ users[u].canvas_access_token # NoToken

\* The sessions /auth/verify created for the magic-link token.
SessionsOfLink(token) ==
  {sid \in DOMAIN issued : issued[sid].kind = "session" /\ issued[sid].code = token}

\* C16: a magic-link token creates at most one session; an unused, unexpired
\* token signs in; once a verification has created the session the token is
\* marked used, and every later /auth/verify with it gets the
\* invalid-or-expired page, with no cookie, and changes nothing.
C16_MagicLinkIsSingleUse ==
  \A i \in 1..Len(magic_links) :
    LET link == magic_links[i] IN
    /\ Cardinality(SessionsOfLink(link.token)) <= 1
    /\ (link.used = 0 /\ TLess(now, link.expires_at)) =>
         /\ VerifyOutcome(link.token) = "signed_in"
         /\ VerifyResponse(link.token).status = 302
    /\ SessionsOfLink(link.token) # {} =>
         /\ link.used = 1
         /\ VerifyOutcome(link.token) = "invalid"
         /\ VerifyResponse(link.token) =
              [status |-> 200, body |-> "Invalid or Expired Link", cookie |-> 0]

C16_Witness ==
  \E i \in 1..Len(magic_links) :
    /\ SessionsOfLink(magic_links[i].token) # {}
    /\ TLess(now, magic_links[i].expires_at)
    /\ \E u \in 1..Len(users) : users[u].canvas_domain = NULL

\* The time the link was issued: 15 minutes before it expires.
IssuedAt(link) == TMinus(link.expires_at, Ms(MAGIC_LINK_TTL))

\* C17 as stated: a request for an address made less than 60 s after a link
\* for that address was issued is answered 429 and creates no link.
C17_CooldownFromIssue ==
  \A i \in 1..Len(magic_links) :
    TLess(now, TPlus(IssuedAt(magic_links[i]), Ms(MAGIC_COOLDOWN))) =>
      /\ MagicLinkOutcome(magic_links[i].email) = "rate_limited"
      /\ MagicLinkResponse(magic_links[i].email).status = 429

\* The age of the cache entry of the key.
EntryAge(apiKey) == TMinus(now, apiKeyCache[apiKey].verifiedAt)

\* C18: with TTL = 900000 ms, a /mcp request with a key whose cache entry
\* was verified at most 899999 ms ago is answered from the cache at once,
\* with no hash verification; one whose entry was verified 900001 ms ago or
\* more starts the scan over every user row that has a key hash.
C18_CacheWindow ==
  [][ \A p \in Procs, k \in DOMAIN apiKeyCache :
        GateStart(p, k) =>
          /\ TLess(EntryAge(k), Ms(900000)) =>
               /\ procs'[p].pc = "idle"
               /\ last' = McpResponse(k, apiKeyCache[k].userId, TRUE)
               /\ last'.status = 200 /\ last'.via = "cache"
          /\ TLess(Ms(900000), EntryAge(k)) =>
               /\ procs'[p].pc = "verify"
               /\ procs'[p].scan = UsersWithApiKey
               /\ last' = last ]_vars

C18_Witness ==
  \E k \in DOMAIN apiKeyCache :
    /\ EntryAge(k) = Ms(899999)
    /\ last.route = "/mcp" /\ last.token = k /\ last.via = "cache" /\ last.at = now

\* C19 as stated: the lookup misses exactly when there is no entry or the
\* entry's age is strictly greater than the TTL; at age = TTL it still hits.
C19_MissOnlyBeyondTtl ==
  \A k \in DOMAIN apiKeyCache :
    CacheFresh(k) <=> ~TLess(Ms(CACHE_TTL), EntryAge(k))

\* An entry the next cleanup deletes.
Stale(k) == k \in DOMAIN apiKeyCache /\ TLess(Ms(CACHE_TTL), EntryAge(k))

\* C20: a cleanup deletes every entry older than the TTL and keeps every
\* entry of age at most the TTL, whether or not its key is presented again;
\* and an entry older than the TTL does not stay: it is deleted (or verified
\* anew) eventually.
C20_SweepRemovesStale ==
  /\ [][ CacheSweep =>
           \A k \in DOMAIN apiKeyCache :
             /\ k \in DOMAIN apiKeyCache' <=> ~TLess(Ms(CACHE_TTL), EntryAge(k))
             /\ k \in DOMAIN apiKeyCache' => apiKeyCache'[k] = apiKeyCache[k] ]_vars
  /\ \A k \in 1..MaxSecrets : Stale(k) ~> ~Stale(k)

C20_Witness ==
  /\ advances = 1
  /\ \E k \in DOMAIN issued :
       /\ last.route = "/mcp" /\ last.token = k /\ last.via = "scan"
       /\ TLess(Ms(CACHE_TTL), TMinus(now, last.at))
       /\ k \notin DOMAIN apiKeyCache

\* One fetch per cache key: the fetches in flight have distinct keys, each is
\* the pending request of its key, nothing is cached under the key of a
\* fetch in flight, and a handler only awaits fetches that are in flight.
OneFetchPerKey ==
  /\ \A f, g \in upstream : f.key = g.key => f = g
  /\ DOMAIN pendingRequests = {f.key : f \in upstream}
  /\ \A k \in DOMAIN pendingRequests : pendingRequests[k] \in upstream
  /\ \A f \in upstream : f.key \notin DOMAIN globalCache
  /\ \A q \in Procs : procs[q].call.awaits \subseteq upstream

\* The answer to a fetch reaches every handler that awaited it: none of them
\* still awaits it, and a list_courses call among them has returned the body
\* of that answer, or an error if the answer was not a 2xx.
AnswerReachesEveryCaller ==
  \A f \in upstream : f \notin upstream' =>
    \A q \in Procs : f \in procs[q].call.awaits =>
      /\ f \notin procs'[q].call.awaits
      /\ procs[q].call.tool = "list_courses" =>
           /\ last'.route = "tools/result"
           /\ q \in DOMAIN last'.answers
           /\ last'.answers[q] =
                IF f.key \in DOMAIN globalCache'
                THEN ToolResult(procs[q].call,
                                UpstreamData(f.key.domain, f.key.path))
                ELSE ToolError(procs[q].call)

\* C27: GET requests with the same cache key that arrive while an earlier one
\* is in flight cause no second upstream fetch: at most one fetch per key is
\* in flight at any time, and every caller waiting on it receives its result.
C27_OneFetchPerKeyInFlight ==
  []OneFetchPerKey /\ [][AnswerReachesEveryCaller]_vars

\* One answer of the provider has just completed list_courses for two callers.
C27_Witness ==
  /\ last.route = "tools/result"
  /\ DOMAIN last.answers = Procs
  /\ \A q \in Procs : /\ last.answers[q].tool = "list_courses"
                      /\ ~last.answers[q].isError
                      /\ last.answers[q].content = CoursesOf("a.edu")

\* The step is the provider's non-2xx answer to the fetch f.
FailsNow(f) ==
  /\ f \in upstream /\ f \notin upstream'
  /\ last'.route = "tools/result" /\ last'.fetch = f /\ ~last'.ok

\* The request of the failed fetch f is over: nothing is cached under its
\* key and the key has no pending request.
FailureLeavesNoTrace(f) ==
  /\ f.key \notin DOMAIN globalCache'
  /\ f.key \notin DOMAIN pendingRequests'

\* A call that starts while its first request has neither a cache entry nor
\* a pending request starts a fetch for that key.
CallFetchesAnew ==
  LET key == getCacheKeyPath("a.edu", "tokA", CoursesPath)
  IN (/\ key \notin DOMAIN globalCache
      /\ key \notin DOMAIN pendingRequests
      /\ \E p \in Procs : procs[p].call = NoCall /\ procs'[p].call # NoCall)
     => \E f \in upstream' \ upstream : f.key = key

\* C28 as stated: after a non-2xx answer every tool call that awaited the
\* fetch returns a result marked isError.
C28_EveryFailureIsToolError ==
  [][\A f \in upstream : FailsNow(f) =>
       \A q \in Procs : f \in procs[q].call.awaits =>
         /\ q \in DOMAIN last'.answers
         /\ last'.answers[q].isError]_vars

\* C28: a non-2xx answer to a tool's own request (not a per-course request
\* of a fan-out) makes that tool call return isError; in every case the
\* failed response is not cached, the pending marker of its key is removed,
\* and a later call for the key issues a new upstream request.
C28_FailureIsPerCall ==
  [][/\ \A f \in upstream : FailsNow(f) =>
          /\ FailureLeavesNoTrace(f)
          /\ \A q \in Procs :
               (f \in procs[q].call.awaits /\ procs[q].pc = "courses") =>
                 /\ q \in DOMAIN last'.answers
                 /\ last'.answers[q] = ToolError(procs[q].call)
                 /\ procs'[q] = Idle
     /\ CallFetchesAnew]_vars

\* The course list failed for a call, which returned isError, and a later
\* call has a new fetch for the same key in flight.
C28_Witness ==
  /\ last.route = "tools/result" /\ ~last.ok
  /\ last.fetch.key.path = CoursesPath
  /\ \E q \in DOMAIN last.answers : last.answers[q].isError
  /\ last.fetch.key \in DOMAIN pendingRequests
  /\ last.fetch.key \notin DOMAIN globalCache

\* The announcements of the courses whose request did not fail, each with
\* its course.
ItemsOfSucceeded(failed) ==
  UNION {{Tagged(AnnouncementsOf(c), c)[i] : i \in 1..Len(AnnouncementsOf(c))} :
           c \in {x \in {"c1", "c2"} : AnnouncementsPath(x) \notin failed}}

\* content lists, most recent first and without repetition, the n most
\* recent items of S (all of S when it has fewer).
IsMostRecent(content, S, n) ==
  LET T == {content[i] : i \in 1..Len(content)}
  IN /\ T \subseteq S
     /\ Cardinality(T) = Len(content)
     /\ Len(content) = IF Cardinality(S) < n THEN Cardinality(S) ELSE n
     /\ \A t \in T, x \in S \ T : t.posted_at >= x.posted_at
     /\ \A i, j \in 1..Len(content) :
          i < j => content[i].posted_at >= content[j].posted_at

\* A get_announcements result: an error only when the course list itself
\* failed; otherwise the most recent limit items of the courses whose
\* request succeeded, whatever happened to the other courses.
AggregateOfSucceeded ==
  last.route = "tools/result" =>
    \A q \in DOMAIN last.answers :
      LET r == last.answers[q]
      IN r.tool = "get_announcements" =>
           /\ r.isError <=> (last.fetch.key.path = CoursesPath /\ ~last.ok)
           /\ ~r.isError =>
                /\ IsMostRecent(r.content, ItemsOfSucceeded(r.failed), r.limit)
                /\ last.fetch.key.path \in Paths \ {CoursesPath} =>
                     (last.fetch.key.path \in r.failed <=> ~last.ok)

\* A handler in its fan-out takes the outcome of each per-course request as
\* the provider gave it, and counts as failed exactly the courses it took
\* as failed.
PartsAsAnswered ==
  \A f \in upstream : f \notin upstream' =>
    \A q \in Procs : (f \in procs[q].call.awaits /\ procs[q].pc = "fanout") =>
      /\ \A path \in DOMAIN procs[q].call.parts :
           IF q \in DOMAIN last'.answers
           THEN path \in last'.answers[q].failed <=> ~procs[q].call.parts[path].ok
           ELSE procs'[q].call.parts[path] = procs[q].call.parts[path]
      /\ q \notin DOMAIN last'.answers =>
           /\ procs'[q].pc = "fanout"
           /\ procs'[q].call.parts[f.key.path].ok = last'.ok

ByExternalId(canvas_user_id) ==
  {u \in 1..Len(users) : users[u].canvas_user_id = canvas_user_id}

\* SELECT * FROM users WHERE email = ? AND canvas_user_id IS NULL
PreActivated(email) ==
  {u \in 1..Len(users) : users[u].email = email /\ users[u].canvas_user_id = NULL}

\* The e-mail of the provider's account with the id at the institution.
ProfileEmail(canvas_domain, id) ==
  (CHOOSE a \in ProviderAccounts : a.canvas_domain = canvas_domain /\ a.id = id).email

\* createOrUpdateUser has looked the row up and waits for hashApiKey: it
\* waits to update the row with the external id, else the pre-activated row
\* with the e-mail, and only a row without key hash; with neither it waits
\* to insert.
LookupStep(p) ==
  (procs[p].pc \notin {"hashExisting", "hashNew"}
   /\ procs'[p].pc \in {"hashExisting", "hashNew"}) =>
    LET me == procs'[p]
        byId == ByExternalId(me.link.canvas_user_id)
        pre == PreActivated(me.link.email)
    IN /\ users' = users
       /\ me.newApiKey \notin DOMAIN issued
       /\ byId # {} => me.pc = "hashExisting" /\ me.userId \in byId
       /\ (byId = {} /\ pre # {}) => me.pc = "hashExisting" /\ me.userId \in pre
       /\ (byId = {} /\ pre = {}) => me.pc = "hashNew"
       /\ me.pc = "hashExisting" => users[me.userId].mcp_api_key = NoHash

\* createOrUpdateUser has matched a row with a key hash: the row is updated
\* in the same step, its hash is kept, no row is added and no key returned.
MatchedWithHashStep ==
  (/\ last'.route = "/api/auth/token-login" /\ last'.status = 200
   /\ last'.cookie # 0 /\ last'.cookie \notin DOMAIN sessions
   /\ last'.apiKey = 0) =>
    LET u == last'.userId
        id == users'[u].canvas_user_id
        byId == ByExternalId(id)
        pre == PreActivated(ProfileEmail(users'[u].canvas_domain, id))
    IN /\ Len(users') = Len(users)
       /\ \A v \in 1..Len(users) : v # u => users'[v] = users[v]
       /\ users[u].mcp_api_key # NoHash
       /\ users'[u].mcp_api_key = users[u].mcp_api_key
       /\ byId # {} => u \in byId
       /\ byId = {} => u \in pre
       /\ sessions'[last'.cookie].api_key = 0

\* hashApiKey has answered: the matched row is updated and no row is added,
\* or exactly one row is added; the row carries the hash of the new key and
\* the response's session the key itself.
WriteStep(p) ==
  (procs[p].pc \in {"hashExisting", "hashNew"} /\ procs'[p].pc = "idle") =>
    LET me == procs[p]
        u == IF me.pc = "hashNew" THEN Len(users) + 1 ELSE me.userId
    IN /\ Len(users') = IF me.pc = "hashNew" THEN Len(users) + 1 ELSE Len(users)
       /\ \A v \in 1..Len(users) : v # u => users'[v] = users[v]
       /\ users'[u].canvas_user_id = me.link.canvas_user_id
       /\ users'[u].canvas_domain = me.link.canvas_domain
       /\ users'[u].mcp_api_key = hashApiKey(me.newApiKey)
       /\ me.pc = "hashNew" => users'[u].email = me.link.email
       /\ \A v \in 1..Len(users) : users[v].mcp_api_key # hashApiKey(me.newApiKey)
       /\ last'.status = 200 /\ last'.userId = u /\ last'.apiKey = me.newApiKey
       /\ sessions'[last'.cookie].api_key = me.newApiKey

\* C30: createOrUpdateUser takes the row with the external id, else the
\* pre-activated row with the e-mail: that row is updated and none is added,
\* and a key is issued exactly when the row had no key hash; when neither
\* matches exactly one row is added, with a fresh key.
C30_LinkByIdThenEmail ==
  [][MatchedWithHashStep /\ \A p \in Procs : LookupStep(p) /\ WriteStep(p)]_vars

\* A login without session has matched the pre-activated row of Bob by its
\* e-mail, linked it to the Canvas user 202 and issued its first key; no row
\* was added.
C30_Witness ==
  /\ Len(users) = 1
  /\ users[1].email = "bob@b.edu" /\ users[1].canvas_user_id = "202"
  /\ last.route = "/api/auth/token-login" /\ last.status = 200
  /\ last.userId = 1 /\ last.cookie # 0 /\ last.apiKey # 0
  /\ users[1].mcp_api_key = hashApiKey(last.apiKey)

\* getUserByApiKey on the given cache and rows: the user of a fresh cache
\* entry, else the first row with a key hash that the key verifies against;
\* 0 for null.
ResolveApiKey(cache, rows, apiKey) ==
  LET fresh == /\ apiKey \in DOMAIN cache
               /\ TLess(TMinus(now, cache[apiKey].verifiedAt), Ms(CACHE_TTL))
               /\ cache[apiKey].userId \in 1..Len(rows)
      verified == {u \in 1..Len(rows) :
                     rows[u].mcp_api_key # NoHash
                     /\ verifyApiKey(apiKey, rows[u].mcp_api_key)}
  IN IF fresh THEN cache[apiKey].userId
     ELSE IF verified # {} THEN CHOOSE u \in verified : \A v \in verified : u <= v
     ELSE 0

\* The step is a token-login without session that matched, by its external
\* id, the row u, which has a key hash.
ReloginOf(u) ==
  /\ last'.route = "/api/auth/token-login" /\ last'.status = 200
  /\ last'.cookie # 0 /\ last'.cookie \notin DOMAIN sessions
  /\ last'.apiKey = 0 /\ last'.userId = u
  /\ u \in 1..Len(users)
  /\ users[u].canvas_user_id # NULL
  /\ users[u].canvas_user_id = users'[u].canvas_user_id

\* C31: a token-login of an activated user, matched by external id, stores
\* the provider credentials of the request, keeps the key hash and returns no
\* key: the session it creates carries no key, and every key that resolved
\* to the user still does.
C31_ReloginKeepsKey ==
  [][\A u \in 1..Len(users) : ReloginOf(u) =>
       /\ users'[u].mcp_api_key = users[u].mcp_api_key
       /\ users[u].mcp_api_key # NoHash
       /\ \E b \in LoginBodiesAcross :
            /\ users'[u].canvas_domain = b.canvas_domain
            /\ users'[u].canvas_access_token = encrypt(b.access_token)
       /\ \A p \in Procs :
            (procs[p].pc = "provider" /\ procs'[p].pc = "idle") =>
              /\ users'[u].canvas_domain = procs[p].link.canvas_domain
              /\ users'[u].canvas_access_token =
                   encrypt(procs[p].link.access_token)
       /\ sessions'[last'.cookie].user_id = u
       /\ sessions'[last'.cookie].api_key = 0
       /\ \A k \in IssuedApiKeys :
            verifyApiKey(k, users[u].mcp_api_key) =>
              /\ ResolveApiKey(apiKeyCache, users, k) = u
              /\ ResolveApiKey(apiKeyCache', users', k) = u]_vars

\* Ann, activated with key 1, has logged in again with her Canvas token: the
\* response carries no key and her row still holds the hash of key 1.
C31_Witness ==
  /\ last.route = "/api/auth/token-login" /\ last.status = 200
  /\ last.userId = 1 /\ last.apiKey = 0 /\ last.cookie \in DOMAIN sessions
  /\ sessions[last.cookie].api_key = 0
  /\ users[1].canvas_user_id = "101"
  /\ users[1].canvas_access_token = encrypt("tokA")
  /\ users[1].mcp_api_key = hashApiKey(1)

\* getUserByApiKey without the cache: the first row with a key hash that
\* the key verifies against; 0 for null.
UncachedScan(rows, apiKey) ==
  LET verified == {u \in 1..Len(rows) :
                     rows[u].mcp_api_key # NoHash
                     /\ verifyApiKey(apiKey, rows[u].mcp_api_key)}
  IN IF verified # {} THEN CHOOSE u \in verified : \A v \in verified : u <= v
     ELSE 0

\* C32: with no key regenerated and no row removed, a key that the gate
\* resolves from the verification cache resolves to the user that the scan
\* without cache finds on the store of that moment.
C32_CacheRefinesScan ==
  [][(last'.route = "/mcp" /\ last' # last /\ last'.via = "cache") =>
       last'.userId = UncachedScan(users', last'.token)]_vars

\* Every cache entry names a key handed out to the user it resolves to: the
\* key whose hash was stored in that user's row.
CachedKeysWereIssued ==
  \A k \in DOMAIN apiKeyCache :
    /\ k \in DOMAIN issued
    /\ issued[k].kind = "key"
    /\ issued[k].userId = apiKeyCache[k].userId

\* The entry of k is new or refreshed in this step.
Inserted(k) ==
  /\ k \in DOMAIN apiKeyCache'
  /\ k \in DOMAIN apiKeyCache => apiKeyCache'[k] # apiKeyCache[k]

\* An entry is written only by the scan step in which the presented key has
\* just verified against the hash read from the user's row, and that lookup
\* resolves to the user; a lookup that ends without a user writes none.
InsertedOnlyWhenVerified ==
  /\ \A k \in DOMAIN apiKeyCache' : Inserted(k) =>
       \E p \in Procs :
         /\ procs[p].pc = "verify" /\ procs[p].apiToken = k
         /\ verifyApiKey(k, Head(procs[p].scan).mcp_api_key)
         /\ apiKeyCache'[k] = [userId |-> Head(procs[p].scan).id, verifiedAt |-> now]
         /\ last' = McpResponse(k, Head(procs[p].scan).id, FALSE)
         /\ last'.status = 200 /\ last'.via = "scan"
  /\ (last'.route = "/mcp" /\ last' # last /\ last'.via \in {"none", "oauth"}) =>
       \A k \in DOMAIN apiKeyCache' : ~Inserted(k)

\* C33: a verification-cache entry is inserted only after its key verified
\* against the stored hash of its user, and a lookup that resolves no user
\* adds or refreshes no entry.
C33_CacheHoldsVerifiedOnly ==
  []CachedKeysWereIssued /\ [][InsertedOnlyWhenVerified]_vars

\* A key is cached for its user and a forged key has just been refused, and
\* the cache holds nothing for it.
C33_Witness ==
  /\ last.route = "/mcp" /\ last.status = 401 /\ last.token = Forged
  /\ last.at = now
  /\ 1 \in DOMAIN apiKeyCache /\ apiKeyCache[1].userId = 1
  /\ Forged \notin DOMAIN apiKeyCache

\* C34 as stated: at most one user row carries a given external-provider
\* user id.
C34_ExternalIdIsUnique ==
  \A u, v \in 1..Len(users) :
    (users[u].canvas_user_id # NULL
     /\ users[u].canvas_user_id = users[v].canvas_user_id) => u = v

\* The body passes the PKCE check of its stored, unexpired code and fails the
\* comparison of client_id or redirect_uri.
PassesPkceFailsBinding(b) ==
  /\ WellFormed(b)
  /\ b.code \in DOMAIN auth_codes
  /\ TLess(now, auth_codes[b.code].expires_at)
  /\ S256(b.code_verifier) = auth_codes[b.code].code_challenge
  /\ (b.client_id # auth_codes[b.code].client_id
      \/ b.redirect_uri # auth_codes[b.code].redirect_uri)

\* Such a request takes the mismatch return, answered invalid_grant without
\* a token; and a request with the verifier, client id and redirect URI of
\* the consent is answered with a token as long as its code is stored and
\* unexpired.
MismatchIsRefused ==
  \A b \in TokenBodies :
    /\ PassesPkceFailsBinding(b) =>
         /\ TokenOutcome(b) = "mismatch"
         /\ TokenResponse(b).status = 400
         /\ TokenResponse(b).error = "invalid_grant"
         /\ TokenResponse(b).access_token = 0
    /\ (MatchesConsent(b) /\ AuthCodeFound(b.code)) =>
         /\ TokenOutcome(b) = "issued"
         /\ TokenResponse(b).status = 200

\* A stored code leaves auth_codes only in a step that burns it after a
\* failed PKCE check or that issues the token for it; a token is created
\* only in a step that removes its code.
CodeLeavesOnlyBurnedOrExchanged ==
  /\ \A c \in DOMAIN auth_codes : c \notin DOMAIN auth_codes' =>
       \/ minted'[c].burned /\ ~minted[c].burned
       \/ \E t \in DOMAIN oauth_tokens' \ DOMAIN oauth_tokens :
            issued'[t].code = c
  /\ \A t \in DOMAIN oauth_tokens' \ DOMAIN oauth_tokens :
       /\ issued'[t].code \in DOMAIN auth_codes \ DOMAIN auth_codes'
       /\ ~minted'[issued'[t].code].burned

\* C35: a /auth/token attempt that passes PKCE and fails the client_id or
\* redirect_uri comparison returns invalid_grant, creates no token and leaves
\* the code stored; a later attempt with the matching client_id, redirect_uri
\* and verifier before expiry succeeds.
C35_MismatchKeepsCode ==
  []MismatchIsRefused /\ [][CodeLeavesOnlyBurnedOrExchanged]_vars

\* A code is stored and unexpired; a request with its verifier and another
\* client id is refused, and the request of the consenting client is granted.
C35_Witness ==
  \E b, g \in TokenBodies :
    /\ b.code = g.code
    /\ PassesPkceFailsBinding(b) /\ b.client_id = "evil"
    /\ TokenResponse(b).error = "invalid_grant"
    /\ MatchesConsent(g) /\ TokenOutcome(g) = "issued"

\* regenerateApiKey up to its await: only cache entries of the user go.
RegenStartFrame(p) ==
  (procs[p].pc # "hash" /\ procs'[p].pc = "hash") =>
    LET u == procs'[p].userId
    IN /\ DOMAIN apiKeyCache' \subseteq DOMAIN apiKeyCache
       /\ \A k \in DOMAIN apiKeyCache :
            IF apiKeyCache[k].userId = u
            THEN k \notin DOMAIN apiKeyCache'
            ELSE k \in DOMAIN apiKeyCache' /\ apiKeyCache'[k] = apiKeyCache[k]
       /\ UNCHANGED <<users, sessions, oauth_tokens, auth_codes>>

\* regenerateApiKey after its await: only the key hash of the user's row
\* changes, and the user's unexpired OAuth tokens resolve to the user.
RegenFinishFrame(p) ==
  (procs[p].pc = "hash" /\ procs'[p].pc = "idle") =>
    LET u == procs[p].userId
    IN /\ Len(users') = Len(users)
       /\ \A v \in 1..Len(users) : v # u => users'[v] = users[v]
       /\ users'[u] = [users[u] EXCEPT !.mcp_api_key = hashApiKey(procs[p].newApiKey)]
       /\ users'[u].mcp_api_key # users[u].mcp_api_key
       /\ UNCHANGED <<sessions, oauth_tokens, auth_codes, apiKeyCache>>
       /\ \A t \in DOMAIN oauth_tokens :
            (oauth_tokens[t].user_id = u /\ TLess(now, oauth_tokens[t].expires_at)) =>
              /\ ResolveApiKey(apiKeyCache', users', t) = 0
              /\ McpResponse(t, 0, FALSE).status = 200
              /\ McpResponse(t, 0, FALSE).userId = u

\* The gate dispatches an unexpired OAuth token as the user it was issued to.
OAuthTokenAuthenticates ==
  (/\ last.route = "/mcp" /\ last.token \in DOMAIN oauth_tokens
   /\ TLess(last.at, oauth_tokens[last.token].expires_at)) =>
    /\ last.status = 200
    /\ last.userId = oauth_tokens[last.token].user_id

\* C36: regenerateApiKey(u) changes only u's key hash and the cache entries
\* that resolve to u; sessions, OAuth tokens, authorization codes, the cache
\* entries and rows of other users are unchanged, and OAuth tokens issued to u
\* before keep authenticating until they expire.
C36_RegenerateTouchesOnlyKey ==
  /\ []OAuthTokenAuthenticates
  /\ [][\A p \in Procs : RegenStartFrame(p) /\ RegenFinishFrame(p)]_vars

\* Ann has regenerated her key; the OAuth token issued to her before has just
\* been dispatched as Ann, and Bob's key is still cached for Bob.
C36_Witness ==
  /\ users[1].mcp_api_key # hashApiKey(1)
  /\ last.route = "/mcp" /\ last.status = 200 /\ last.userId = 1
  /\ last.via = "oauth"
  /\ last.token \in DOMAIN oauth_tokens
  /\ \E k \in DOMAIN issued : /\ issued[k].kind = "key" /\ issued[k].userId = 1
                              /\ k > last.token
  /\ 2 \in DOMAIN apiKeyCache /\ apiKeyCache[2].userId = 2

\* A client that awaits a fetch awaits one that carries its own token.
InFlightIsOwn ==
  \A p \in Procs :
    procs[p].pc = "provider" => procs[p].link.fetchToken = procs[p].link.access_token

\* The profile a token-login works with after CanvasClient.request returned
\* is the provider's profile for the domain and token of its own client.
ProfileIsOwn ==
  \A p \in Procs :
    procs[p].pc \in {"hashNew", "hashExisting", "hashUpdate"} =>
      LET l == procs[p].link
      IN IF ProviderKnows(l.canvas_domain, l.access_token)
         THEN getCurrentUser(l.canvas_domain, l.access_token).id = l.canvas_user_id
         ELSE FALSE

\* The provider id a row was linked to is the one the provider gives for
\* the domain and token stored in the row.
StoredProfileIsOwn ==
  \A u \in 1..Len(users) :
    users[u].canvas_access_token # NoToken =>
      LET d == users[u].canvas_domain
          t == decrypt(users[u].canvas_access_token)
      IN IF ProviderKnows(d, t)
         THEN getCurrentUser(d, t).id = users[u].canvas_user_id
         ELSE FALSE

\* C37 as stated: the upstream response cache isolates users: a cached or
\* in-flight response is returned only to a client constructed with the same
\* domain and the same access token as the client whose request populated it.
C37_CacheIsolatesClients ==
  InFlightIsOwn /\ ProfileIsOwn /\ StoredProfileIsOwn

\* The handler of a magic-link request resumes from the mail in this step.
MailReturns == \E p \in Procs : procs[p].pc = "mail" /\ procs'[p].pc = "idle"

\* Link rows stay: a step neither removes a row nor changes anything of a
\* row but its used mark.
LinksStay ==
  /\ Len(magic_links') >= Len(magic_links)
  /\ \A i \in 1..Len(magic_links) :
       magic_links'[i] = [magic_links[i] EXCEPT !.used = magic_links'[i].used]

\* A row counts toward the cooldown of its address, by the time the store
\* gave it, and its token signs in while it is unused and unexpired.
LinkCounts(link) ==
  /\ TLess(now, TPlus(link.created_at, Ms(MAGIC_COOLDOWN))) =>
       /\ MagicLinkOutcome(link.email) = "rate_limited"
       /\ MagicLinkResponse(link.email).status = 429
  /\ (link.used = 0 /\ TLess(now, link.expires_at)) <=>
       VerifyOutcome(link.token) = "signed_in"

\* C38: when the mail of a magic link fails the request answers 500 and the
\* link row stays in the store: it counts toward the cooldown of its address
\* and its token is redeemable until it is used or expired.
C38_FailedMailKeepsLink ==
  /\ [](\A i \in 1..Len(magic_links) : LinkCounts(magic_links[i]))
  /\ [][ /\ LinksStay
         /\ MailReturns =>
              /\ magic_links' = magic_links
              /\ last'.route = "/api/auth/request-magic-link"
              /\ last'.status \in {200, 500} ]_vars

\* The only link ever made could not be mailed (500), and its token has
\* signed a browser in all the same.
C38_Witness ==
  /\ last.route = "/api/auth/request-magic-link" /\ last.status = 500
  /\ Len(magic_links) = 1
  /\ magic_links[1].used = 1
  /\ SessionsOfLink(magic_links[1].token) # {}

\* The mail of the only link failed, and within the cooldown the address is
\* refused another link.
C38_CooldownReached ==
  /\ last.route = "/api/auth/request-magic-link" /\ last.status = 500
  /\ Len(magic_links) = 1
  /\ MagicLinkOutcome(magic_links[1].email) = "rate_limited"

\* The record's expiry time lies before the present: what the cleanup
\* functions would delete.
Lapsed(row) == TLess(row.expires_at, now)

\* C21 as stated: every expired session, authorization code, OAuth token
\* and magic link is eventually deleted from the store, with no request
\* needed for it.
C21_ExpiredEventuallyDeleted ==
  \A x \in 1..MaxSecrets :
    /\ (x \in DOMAIN sessions /\ Lapsed(sessions[x])) ~> (x \notin DOMAIN sessions)
    /\ (x \in DOMAIN auth_codes /\ Lapsed(auth_codes[x])) ~> (x \notin DOMAIN auth_codes)
    /\ (x \in DOMAIN oauth_tokens /\ Lapsed(oauth_tokens[x]))
         ~> (x \notin DOMAIN oauth_tokens)
    /\ (\E i \in 1..Len(magic_links) :
          magic_links[i].token = x /\ Lapsed(magic_links[i]))
         ~> (\A i \in 1..Len(magic_links) : magic_links[i].token # x)

\* The record's expiry time has been reached.
Expired(row) == ~TLess(now, row.expires_at)

\* C22: a session, authorization code, OAuth token or magic link whose
\* expiry time has been reached is refused by its lookup while its row is
\* still in the store: the session resolves to no user, /auth/token answers
\* invalid_grant whatever else the body holds, the gate answers 401, and
\* /auth/verify shows the invalid-or-expired page.
C22_ExpiredNeverAccepted ==
  /\ \A sid \in DOMAIN sessions :
       Expired(sessions[sid]) =>
         /\ getSession(sid) = 0 /\ SessionUser(sid) = 0
         /\ MeResponse(sid).status = 401
  /\ \A b \in TokenBodies :
       (b.code \in DOMAIN auth_codes /\ Expired(auth_codes[b.code])) =>
         /\ TokenOutcome(b) # "issued"
         /\ TokenResponse(b).status = 400 /\ TokenResponse(b).access_token = 0
         /\ TokenOutcome(b) \notin {"unsupported_grant_type", "invalid_request"} =>
              TokenResponse(b).error = "invalid_grant"
  /\ \A t \in DOMAIN oauth_tokens :
       Expired(oauth_tokens[t]) =>
         /\ getUserByOAuthToken(t) = 0
         /\ McpResponse(t, 0, FALSE).status = 401
         /\ (last.route = "/mcp" /\ last.token = t /\ last.at = now) =>
              last.status = 401
  /\ \A i \in 1..Len(magic_links) :
       Expired(magic_links[i]) =>
         /\ VerifyOutcome(magic_links[i].token) = "invalid"
         /\ VerifyResponse(magic_links[i].token).cookie = 0

C22_Witness ==
  /\ \E sid \in DOMAIN sessions : Expired(sessions[sid])
  /\ \E t \in DOMAIN oauth_tokens :
       /\ Expired(oauth_tokens[t])
       /\ last.route = "/mcp" /\ last.token = t /\ last.at = now
  /\ \E i \in 1..Len(magic_links) :
       Expired(magic_links[i]) /\ magic_links[i].used = 0

\* What the store has recorded about the links sent to the address.
LinkTimes(email) ==
  {magic_links[i].created_at : i \in {j \in 1..Len(magic_links) :
                                        magic_links[j].email = email}}

C24_TokenErrorsAreOAuthErrors ==
  /\ \A req \in TokenWire :
       \/ /\ TokenPostResponse(req).status = 200
          /\ TokenPostResponse(req).access_token # 0
       \/ /\ TokenPostResponse(req).status = 400
          /\ TokenPostResponse(req).error \in
               {"unsupported_grant_type", "invalid_request", "invalid_grant"}
  /\ last.route = "/auth/token" => last.status \in {200, 400}

\* C25 as stated: when the dispatch of an authenticated /mcp request throws,
\* the client gets code -32603 with the fixed message, and no text of the
\* internal error.
C25_InternalErrorIsGeneric ==
  (last.route = "/mcp" /\ last.status = 500) =>
    /\ last.code = -32603
    /\ last.message = "Internal server error"

\* C26 as stated: with an encryption key that is absent or not 32 bytes long
\* the server never serves a request, and no provider token is stored
\* unencrypted.
C26_BadKeyIsFatalAtStartup ==
  /\ ENCRYPTION_KEY # 32 =>
       /\ last.route = "none"
       /\ \A p \in Procs : procs[p].pc = "idle"
  /\ \A u \in 1..Len(users) :
       users[u].canvas_access_token # NoToken =>
         users[u].canvas_access_token.alg = "aes-256-gcm"

\* C4 (as the code has it): a code yields at most one token; once a code has
\* been exchanged, every later /auth/token request naming it creates no token
\* and is answered 400, with invalid_grant whenever the request names the
\* authorization_code grant and carries a verifier and a client id.
C4_CodeIsSingleUse ==
  \A c \in DOMAIN minted :
    /\ Cardinality({t \in DOMAIN oauth_tokens : issued[t].code = c}) <= 1
    /\ Exchanged(c) =>
         \A b \in TokenBodies : b.code = c =>
           /\ TokenOutcome(b) # "issued"
           /\ TokenResponse(b).status = 400
           /\ TokenResponse(b).access_token = 0
           /\ WellFormed(b) => TokenResponse(b).error = "invalid_grant"

\* C4 as stated: once a code has been exchanged, every later request naming
\* it, whatever its other parameters, is answered invalid_grant.
C4_AnyParametersInvalidGrant ==
  \A c \in DOMAIN minted :
    /\ Cardinality({t \in DOMAIN oauth_tokens : issued[t].code = c}) <= 1
    /\ Exchanged(c) =>
         \A b \in TokenBodies : b.code = c =>
           /\ TokenOutcome(b) # "issued"
           /\ TokenResponse(b).access_token = 0
           /\ TokenResponse(b).error = "invalid_grant"

C4_Witness ==
  \E c \in DOMAIN minted :
    /\ Exchanged(c)
    /\ TLess(now, minted[c].expires_at)
    /\ \E b \in TokenBodies : b.code = c /\ MatchesConsent(b)

\* C5: a request that reaches the PKCE check with a stored, unexpired code and
\* a verifier that does not hash to the challenge is answered invalid_grant;
\* it deletes the code, so the code is gone and a later request with the
\* right verifier, client id and redirect URI is answered invalid_grant too,
\* and no token is ever issued for the code.
C5_PkceFailureBurnsCode ==
  /\ \A b \in TokenBodies :
       ( /\ WellFormed(b)
         /\ b.code \in DOMAIN auth_codes
         /\ TLess(now, auth_codes[b.code].expires_at)
         /\ S256(b.code_verifier) # auth_codes[b.code].code_challenge )
       => /\ TokenOutcome(b) = "pkce_failed"
          /\ TokenResponse(b).status = 400
          /\ TokenResponse(b).error = "invalid_grant"
  /\ \A c \in DOMAIN minted : minted[c].burned =>
       /\ c \notin DOMAIN auth_codes
       /\ ~Exchanged(c)
       /\ \A b \in TokenBodies : (b.code = c /\ MatchesConsent(b)) =>
            /\ TokenResponse(b).status = 400
            /\ TokenResponse(b).error = "invalid_grant"
            /\ TokenResponse(b).access_token = 0

C5_Witness ==
  \E c \in DOMAIN minted :
    /\ minted[c].burned
    /\ TLess(now, minted[c].expires_at)
    /\ \E b \in TokenBodies : b.code = c /\ MatchesConsent(b)

\* C6: /auth/token issues a token only for a request whose grant type is
\* authorization_code, whose code is stored and unexpired, whose verifier
\* hashes to the challenge stored at consent, and whose client id and
\* redirect URI are those stored at consent; every other request is answered
\* without a token; and every row of oauth_tokens was created by such an
\* exchange, before its code expired.
C6_TokenOnlyWhenAllChecksPass ==
  /\ \A b \in TokenBodies :
       /\ TokenOutcome(b) = "issued" =>
            /\ b.grant_type = "authorization_code"
            /\ b.code \in DOMAIN auth_codes
            /\ TLess(now, minted[b.code].expires_at)
            /\ MatchesConsent(b)
       /\ TokenOutcome(b) # "issued" =>
            TokenResponse(b).access_token = 0 /\ TokenResponse(b).status = 400
  /\ \A t \in DOMAIN oauth_tokens :
       /\ t \in DOMAIN issued
       /\ issued[t].kind = "oauth"
       /\ issued[t].code \in DOMAIN minted
       /\ ~minted[issued[t].code].burned
       /\ TLess(TMinus(oauth_tokens[t].expires_at, Ms(OAUTH_TOKEN_TTL)),
                minted[issued[t].code].expires_at)

C6_Witness ==
  \E t \in DOMAIN oauth_tokens :
    /\ TLess(now, oauth_tokens[t].expires_at)
    /\ ~TLess(now, minted[issued[t].code].expires_at)
    /\ \E b \in TokenBodies : b.code = issued[t].code /\ MatchesConsent(b)

\* C7: every OAuth token is stored for the user whose session approved the
\* consent that minted the exchanged code, with the scope that consent
\* submitted; the token response returns that scope; and the gate, presented
\* with the token, dispatches as that user while the token has not expired
\* and never as anybody else.
C7_TokenBoundToConsent ==
  /\ \A t \in DOMAIN oauth_tokens :
       /\ t \in DOMAIN issued
       /\ oauth_tokens[t].user_id = issued[t].userId
       /\ oauth_tokens[t].scope = issued[t].scope
       /\ (last.route = "/mcp" /\ last.token = t) =>
            /\ last.status = 200 => last.userId = issued[t].userId
            /\ TLess(last.at, oauth_tokens[t].expires_at) => last.status = 200
  /\ \A b \in TokenBodies :
       TokenOutcome(b) = "issued" =>
         TokenResponse(b).scope = minted[b.code].scope

C7_Witness ==
  /\ last.route = "/mcp"
  /\ last.token \in DOMAIN oauth_tokens
  /\ last.status = 200
  /\ issued[last.token].scope = "canvas:grades:read"
  /\ last.userId = 1

\* C8 as stated: no authorization code is ever stored for a user without a
\* linked provider account.
C8_NoCodeForUnlinkedUser ==
  \A c \in DOMAIN minted : HasCanvas(minted[c].userId)

\* C9: /auth/authorize answers 400 when client_id, redirect_uri,
\* code_challenge or response_type is missing; else 400 when response_type is
\* not code; else 400 when the challenge method is not S256; else a redirect
\* to login when the cookie names no unexpired session; else the
\* connect-first page when the session's user has no provider domain; else
\* the consent page.  It leaves auth_codes as it found it.
C9_AuthorizeDecisionOrder ==
  \A c \in Cookies, q \in AuthorizeQueries :
    LET r == AuthorizeResponse(c, q)
        missing == NULL \in {q.client_id, q.redirect_uri, q.code_challenge,
                             q.response_type}
        ok == ~missing /\ q.response_type = "code"
                /\ q.code_challenge_method = "S256"
        active == c \in DOMAIN sessions /\ TLess(now, sessions[c].expires_at)
        linked == active /\ users[sessions[c].user_id].canvas_domain # NULL
    IN /\ missing =>
            r = [status |-> 400, body |-> "Missing required OAuth parameters"]
       /\ (~missing /\ q.response_type # "code") =>
            r = [status |-> 400, body |-> "Only authorization_code flow is supported"]
       /\ (~missing /\ q.response_type = "code" /\ q.code_challenge_method # "S256") =>
            r = [status |-> 400, body |-> "Only S256 PKCE method is supported"]
       /\ (ok /\ ~active) => r = [status |-> 302, body |-> "/?oauth_redirect="]
       /\ (ok /\ active /\ ~linked) =>
            r = [status |-> 200, body |-> "Connect Canvas First"]
       /\ (ok /\ linked) => r = [status |-> 200, body |-> "Authorize Access"]
       /\ (r.body = "Authorize Access") => (ok /\ linked)
       /\ AuthorizeStores(c, q) = auth_codes

C9_Witness ==
  /\ auth_codes # << >>
  /\ \E c \in DOMAIN sessions, q \in AuthorizeQueries :
       /\ ~TLess(now, sessions[c].expires_at)
       /\ q.client_id # NULL /\ q.code_challenge_method = "plain"
       /\ AuthorizeResponse(c, q).status = 400

\* The user whose stored hash the presented key verifies against, 0 for none.
KeyOwner(apiKey) ==
  IF \E u \in 1..Len(users) : verifyApiKey(apiKey, users[u].mcp_api_key)
  THEN CHOOSE u \in 1..Len(users) : verifyApiKey(apiKey, users[u].mcp_api_key)
  ELSE 0

====
